---- MODULE Spec2Model ----
(***************************************************************************)
(* DeployKnot: the deployment coordinator (HTTP handler + service), the    *)
(* Redis job queue, the deployment store (deployments and step rows) and   *)
(* the worker that drives a deployment through its pipeline.               *)
(*                                                                         *)
(* Store round trips made by the worker are taken to succeed; the store    *)
(* and queue faults of the coordinator are inputs of CreateDeployment.     *)
(* Remote operations (SSH dial, sessions, commands, SFTP) succeed or fail  *)
(* nondeterministically and always return.                                 *)
(***************************************************************************)
EXTENDS Integers, Sequences, FiniteSets, TLC

(* ---- bounds ---- *)
MaxDeployments == 2
MaxClock == 1
MaxFaults == 1
MaxJobs == 3

MaxLogs == 2

MaxNameLen == 2

MaxEnvLen == 4

(* ---- program constants ---- *)
MinPort == 1
MaxPort == 65535

(* NULL of a nullable column (a nil *time.Time, *int). *)
Null == 0 - 1
NoError == "null"

Ids == 1..MaxDeployments
Workers == {"w1"}

(* The jobs and the worker processes of the section on the job queue. *)
JobIds == 1..MaxJobs
QueueWorkers == {"w1", "w2"}

(* A key "deployknot:job:<id>" that does not exist. *)
NoRecord == [status |-> "none", started_at |-> Null, completed_at |-> Null]

(* A worker blocked in BRPOP; got is the record UpdateJobStatus read and    *)
(* target the status it is about to write.                                  *)
IdleWorker == [pc |-> "brpop", job |-> 0, got |-> NoRecord, target |-> "none"]

(* No observer: nothing sent, last_log_id the zero UUID. *)
NoStream == [pc |-> "detached", lastLogID |-> 0, events |-> <<>>]

NoRun == [source |-> "none", input |-> <<>>, written |-> <<>>, env_file |-> FALSE]

(* The deployment each worker processes on the shared target host. *)
HostJob(w) == IF w = "w1" THEN 1 ELSE 2

(* No container of a name on the target. *)
NoContainer == [image |-> 0, env |-> 0, status |-> "absent"]

HostJobs == {HostJob(w) : w \in QueueWorkers}

NoHost == [pc |-> [w \in QueueWorkers |-> "cleanup"],
           app |-> 0, uploaded |-> 0, copied |-> 0,
           image |-> [d \in HostJobs |-> 0],
           container |-> [d \in HostJobs |-> NoContainer]]

VARIABLES deployments, steps, queue, jobs, resp, faults, clock, pc, wjob, failedStep, finished

(* The queue service at the granularity of single Redis commands, with     *)
(* several workers (see the section on the job queue below).               *)
VARIABLES rqueue, rjob, enq, wk, pushed, popped, dstatus, handled

queueVars == <<rqueue, rjob, enq, wk, pushed, popped, dstatus, handled>>

(* The log rows of one deployment and the log stream of one observer (see  *)
(* the section on the log stream below).                                    *)
VARIABLES logs, stream

streamVars == <<logs, stream>>

(* The worker process under a shutdown signal, the docker run step under   *)
(* an env input, and the files and images of one target host (see the      *)
(* sections below).                                                         *)
VARIABLES proc, run, host

procVars == <<proc, run, host>>

auxVars == <<queueVars, streamVars, procVars>>

vars == <<deployments, steps, queue, jobs, resp, faults, clock, pc, wjob, failedStep, finished,
          auxVars>>

(***************************************************************************)
(* models.CreateDeploymentRequest.GetPortAsInt: the port arrives as a      *)
(* string (a sequence of characters) and is converted with strconv.Atoi.   *)
(***************************************************************************)
Digits == <<"0", "1", "2", "3", "4", "5", "6", "7", "8", "9">>

IsDigit(c) == \E i \in 1..10 : Digits[i] = c

DigitVal(c) == (CHOOSE i \in 1..10 : Digits[i] = c) - 1

RECURSIVE ParseDigits(_, _)
ParseDigits(s, acc) ==
    IF s = <<>> THEN acc
    ELSE ParseDigits(Tail(s), acc * 10 + DigitVal(Head(s)))

Atoi(s) ==
    LET signed == s # <<>> /\ Head(s) \in {"-", "+"}
        body == IF signed THEN Tail(s) ELSE s
    IN  IF body = <<>> \/ \E i \in 1..Len(body) : ~IsDigit(body[i])
        THEN [ok |-> FALSE, val |-> 0]
        ELSE [ok |-> TRUE,
              val |-> IF Head(s) = "-" THEN 0 - ParseDigits(body, 0)
                      ELSE ParseDigits(body, 0)]

(* A faulty variant of the range check that is off by one at both ends. *)
GetPortAsIntExclusive(port) ==
    IF port = <<>> THEN [ok |-> FALSE, val |-> 0]
    ELSE IF ~Atoi(port).ok THEN [ok |-> FALSE, val |-> 0]
    ELSE IF Atoi(port).val <= MinPort \/ Atoi(port).val >= MaxPort
         THEN [ok |-> FALSE, val |-> 0]
    ELSE [ok |-> TRUE, val |-> Atoi(port).val]

GetPortAsInt(port) ==
    IF port = <<>> THEN [ok |-> FALSE, val |-> 0]
    ELSE IF ~Atoi(port).ok THEN [ok |-> FALSE, val |-> 0]
    ELSE IF Atoi(port).val < MinPort \/ Atoi(port).val > MaxPort
         THEN [ok |-> FALSE, val |-> 0]
    ELSE [ok |-> TRUE, val |-> Atoi(port).val]

(***************************************************************************)
(* Step rows.  steps[d] is the list Repository.GetDeploymentSteps returns  *)
(* (ORDER BY step_order ASC); the coordinator inserts in increasing order. *)
(***************************************************************************)
InitialSteps ==
    << [name |-> "validate_credentials", order |-> 1],
       [name |-> "git_clone", order |-> 2],
       [name |-> "docker_build", order |-> 3],
       [name |-> "docker_run", order |-> 4],
       [name |-> "health_check", order |-> 5] >>

NewStep(info) ==
    [step_name |-> info.name, step_order |-> info.order, status |-> "pending",
     started_at |-> Null, completed_at |-> Null, duration_ms |-> Null,
     error_message |-> NoError]

(* A faulty variant of createInitialSteps that goes on after a failed write. *)
createInitialStepsIgnoringFailure(failAt) ==
    [i \in 1..Len(InitialSteps) |-> NewStep(InitialSteps[i])]

(* createInitialSteps: the rows are written one by one and the loop returns *)
(* at the first write that fails (failAt, 0 for none).                      *)
createInitialSteps(failAt) ==
    [i \in 1..(IF failAt = 0 THEN Len(InitialSteps) ELSE failAt - 1) |->
        NewStep(InitialSteps[i])]

(* The error texts the worker persists. *)
AbandonedReasons ==
    << "Step abandoned due to failure in step 1",
       "Step abandoned due to failure in step 2",
       "Step abandoned due to failure in step 3",
       "Step abandoned due to failure in step 4",
       "Step abandoned due to failure in step 5" >>

Abandoned(n) == AbandonedReasons[n]

MissingParams == "missing required deployment parameters"
ConnectFailed == "Failed to connect to target server"
DeploymentFailed == "Deployment failed"

(* The secrets a request may carry. *)
Passwords == {"pw-A", "pw-B"}
Pats == {"ghp_A", "ghp_B"}

(* "Git clone failed: %v, output: %s", the row text of a clone whose       *)
(* output names the URL of the command line, which holds the token:        *)
(* https://{pat}@github.com/{owner}/{repo}.git.                             *)
GitCloneDenied(pat) ==
    IF pat = "ghp_A"
    THEN "Git clone failed, output: could not read Password for 'https://ghp_A@github.com'"
    ELSE "Git clone failed, output: could not read Password for 'https://ghp_B@github.com'"

(* "Deployment failed: %v" of the error cloneRepository returns, which     *)
(* carries the same output.                                                 *)
DeploymentFailedDenied(pat) ==
    IF pat = "ghp_A"
    THEN "Deployment failed: git clone failed, output: could not read Password for 'https://ghp_A@github.com'"
    ELSE "Deployment failed: git clone failed, output: could not read Password for 'https://ghp_B@github.com'"
Captured == "captured reason of the failed substep"

(* A faulty variant of the duration with the operands swapped. *)
DurationMsReversed(started, now) == started - now

(* time.Now().Sub(started).Milliseconds(), the clock counting milliseconds *)
DurationMs(started, now) == now - started

(* The row update of updateDeploymentStep (and of markStepAsFailed) on the  *)
(* row read back from the store.                                            *)
UpdatedStep(row, status, errorMessage, now) ==
    LET r1 == [row EXCEPT !.status = status, !.error_message = errorMessage]
    IN  IF status = "running" THEN [r1 EXCEPT !.started_at = now]
        ELSE IF status \in {"completed", "failed"}
        THEN [r1 EXCEPT !.completed_at = now,
                        !.duration_ms = IF row.started_at # Null
                                        THEN DurationMs(row.started_at, now)
                                        ELSE row.duration_ms]
        ELSE r1

(* updateDeploymentStep: the first row with the given step_order is         *)
(* updated; "step not found" leaves the rows as they are.                   *)
updateDeploymentStep(rows, stepOrder, status, errorMessage, now) ==
    [i \in 1..Len(rows) |->
        IF rows[i].step_order = stepOrder
        THEN UpdatedStep(rows[i], status, errorMessage, now)
        ELSE rows[i]]

(* A faulty variant that leaves the row of the failed step as it is. *)
markStepAsFailedSkipping(rows, stepOrder, errorMsg, now) == rows

(* markStepAsFailed has the same effect as an update to failed. *)
markStepAsFailed(rows, stepOrder, errorMsg, now) ==
    updateDeploymentStep(rows, stepOrder, "failed", errorMsg, now)

(* A faulty variant of the status update that leaves the message. *)
UpdateDeploymentStatusKeepingMessage(row, status, errorMessage) ==
    [row EXCEPT !.status = status]

(* A faulty variant of the condition that reaches the next row only. *)
IsRemainingNextOnly(row, failedStepOrder) ==
    row.step_order = failedStepOrder + 1 /\ row.status = "pending"

(* The condition of markRemainingStepsAsFailed, with Go's precedence:       *)
(* (order > failed && pending) || running.                                  *)
IsRemaining(row, failedStepOrder) ==
    (row.step_order > failedStepOrder /\ row.status = "pending")
        \/ row.status = "running"

(* A faulty variant that names the abandoned row itself in the reason. *)
markRemainingStepsWithOwnOrder(rows, failedStepOrder, now) ==
    [i \in 1..Len(rows) |->
        IF IsRemaining(rows[i], failedStepOrder)
        THEN UpdatedStep(rows[i], "failed", Abandoned(rows[i].step_order), now)
        ELSE rows[i]]

markRemainingStepsAsFailed(rows, failedStepOrder, now) ==
    [i \in 1..Len(rows) |->
        IF IsRemaining(rows[i], failedStepOrder)
        THEN UpdatedStep(rows[i], "failed", Abandoned(failedStepOrder), now)
        ELSE rows[i]]

markAllStepsAsFailed(rows, errorMsg, now) ==
    [i \in 1..Len(rows) |->
        IF rows[i].status \notin {"completed", "failed"}
        THEN UpdatedStep(rows[i], "failed", errorMsg, now)
        ELSE rows[i]]

(* Repository.UpdateDeploymentStatus: status and error_message only. *)
UpdateDeploymentStatus(row, status, errorMessage) ==
    [row EXCEPT !.status = status, !.error_message = errorMessage]

(***************************************************************************)
(* State                                                                   *)
(*   deployments[d]  the deployment row, NoRow until it is written         *)
(*   steps[d]        the step rows of d, ordered by step_order             *)
(*   queue           the Redis list; LPUSH adds at index 1, BRPOP takes    *)
(*                   the last element                                      *)
(*   jobs[d]         status of the per-job record of d's job ("none"       *)
(*                   until enqueue writes it)                              *)
(*   resp            the last create request with the faults it met and    *)
(*                   the HTTP response it got                              *)
(*   faults          store and queue faults the coordinator has met        *)
(*   clock           time.Now(), in milliseconds                           *)
(*   pc, wjob, failedStep   position, job and failed step of each worker   *)
(*   finished        deployments whose job a worker is done with           *)
(***************************************************************************)
NoRow == [status |-> "absent", created_at |-> Null, started_at |-> Null,
          completed_at |-> Null, error_message |-> NoError, port |-> 0,
          container_name |-> <<>>, project_name |-> <<>>, deployment_name |-> <<>>,
          ssh_password_encrypted |-> "", github_pat_encrypted |-> ""]

(* A job as the worker holds it: the envelope and err, the error a step   *)
(* function has returned.                                                   *)
NoJob == [deployment_id |-> 0, params_ok |-> TRUE, env_file |-> FALSE,
          container_name |-> <<>>, ssh_password |-> "", github_pat |-> "",
          err |-> NoError]

NoResp == [code |-> 0, error |-> "", id |-> 0, auth_ok |-> TRUE, fields_ok |-> TRUE,
           port |-> <<>>, upload |-> "none", deploy_fail |-> FALSE, step_fail_at |-> 0,
           queue_fail |-> FALSE, container_name |-> <<>>, project_name |-> <<>>,
           deployment_name |-> <<>>, container |-> <<>>,
           ssh_password |-> "pw-A", github_pat |-> "ghp_A"]

(* The port strings a request may carry. *)
PortInputs == { <<>>, <<"0">>, <<"8", "0">>, <<"6", "5", "5", "3", "6">>, <<"8", "o">> }

Uploads == {"none", "saved", "failed"}

StepFaults == 0..Len(InitialSteps)

(* The queue service of the section on the job queue: nothing enqueued,    *)
(* every worker blocked in BRPOP.                                           *)
RedisInit ==
    /\ rqueue = <<>>
    /\ rjob = [j \in JobIds |-> NoRecord]
    /\ enq = [j \in JobIds |-> "new"]
    /\ wk = [w \in QueueWorkers |-> IdleWorker]
    /\ pushed = <<>>
    /\ popped = <<>>
    /\ handled = {}

QueueInit ==
    /\ RedisInit
    /\ dstatus = [j \in JobIds |-> "pending"]

(* No log row yet, no observer attached. *)
StreamInit ==
    /\ logs = <<>>
    /\ stream = NoStream

(* The worker process is up, no docker run step has run, the target host   *)
(* is clean and both workers are about to start a deployment on it.         *)
ProcInit ==
    /\ proc = "up"
    /\ run = NoRun
    /\ host = NoHost

CoreInit ==
    /\ deployments = [d \in Ids |-> NoRow]
    /\ steps = [d \in Ids |-> <<>>]
    /\ queue = <<>>
    /\ jobs = [d \in Ids |-> "none"]
    /\ resp = NoResp
    /\ faults = 0
    /\ clock = 0
    /\ pc = [w \in Workers |-> "idle"]
    /\ wjob = [w \in Workers |-> NoJob]
    /\ failedStep = [w \in Workers |-> 0]
    /\ finished = {}

Init ==
    /\ CoreInit
    /\ QueueInit
    /\ StreamInit
    /\ ProcInit

Tick ==
    /\ clock < MaxClock
    /\ clock' = clock + 1
    /\ UNCHANGED <<deployments, steps, queue, jobs, resp, faults, pc, wjob, failedStep, finished,
                   auxVars>>

(* The next free deployment id (uuid.New never repeats). *)
FreeIds == {d \in Ids : deployments[d].status = "absent"}

NewId == CHOOSE d \in FreeIds : \A e \in FreeIds : d <= e

Respond(r, code, error, id) == [r EXCEPT !.code = code, !.error = error, !.id = id]

LPush(q, envelope) == <<envelope>> \o q

(* A faulty variant of the enqueue that pushes although LPUSH failed. *)
EnqueueDeploymentJobAlways(q, envelope, fail) == LPush(q, envelope)

(* QueueService.EnqueueDeploymentJob on the list: the envelope is pushed    *)
(* unless LPUSH fails, and then the error is returned at once.              *)
EnqueueDeploymentJob(q, envelope, fail) == IF fail THEN q ELSE LPush(q, envelope)

(* A faulty variant of the coordinator that enqueues the job although the  *)
(* deployment row could not be written.                                     *)
EnqueueOnWriteError(q, envelope) == LPush(q, envelope)

(* CreateDeploymentWithEnvFile when repo.CreateDeployment fails: it returns *)
(* the error before the job is enqueued.                                    *)
ReturnOnWriteError(q, envelope) == q

(* ... and on the per-job record, written after the push. *)
JobRecordAfterEnqueue(record, fail) == IF fail THEN record ELSE "pending"

(***************************************************************************)
(* Container names.  A string is a sequence of one-character strings; an   *)
(* absent (nil) name and the empty name are both <<>>, which is how        *)
(* generateContainerName treats them.                                      *)
(***************************************************************************)
NameLimit == 50

UpperCase == <<"A", "B", "C", "D", "E", "F", "G", "H", "I", "J", "K", "L", "M",
               "N", "O", "P", "Q", "R", "S", "T", "U", "V", "W", "X", "Y", "Z">>

LowerCase == <<"a", "b", "c", "d", "e", "f", "g", "h", "i", "j", "k", "l", "m",
               "n", "o", "p", "q", "r", "s", "t", "u", "v", "w", "x", "y", "z">>

(* strings.ToLower on one character. *)
ToLower(c) ==
    IF \E i \in 1..Len(UpperCase) : UpperCase[i] = c
    THEN LowerCase[CHOOSE i \in 1..Len(UpperCase) : UpperCase[i] = c]
    ELSE c

(* The characters the loop of sanitizeContainerName keeps. *)
IsNameChar(c) == (\E i \in 1..Len(LowerCase) : LowerCase[i] = c) \/ IsDigit(c) \/ c = "-"

(* strings.Trim(s, "-"). *)
TrimHyphens(s) ==
    LET kept == {i \in 1..Len(s) : s[i] # "-"}
    IN  IF kept = {} THEN <<>>
        ELSE SubSeq(s, CHOOSE i \in kept : \A j \in kept : i <= j,
                       CHOOSE i \in kept : \A j \in kept : i >= j)

(* sanitizeContainerName. *)
sanitizeContainerName(name) ==
    LET mapped == [i \in 1..Len(name) |->
                      IF IsNameChar(ToLower(name[i])) THEN ToLower(name[i]) ELSE "-"]
        trimmed == TrimHyphens(mapped)
        named == IF trimmed = <<>> THEN <<"a", "p", "p">> ELSE trimmed
    IN  IF Len(named) > NameLimit THEN SubSeq(named, 1, NameLimit) ELSE named

Prefix == <<"d", "e", "p", "l", "o", "y", "k", "n", "o", "t", "-">>

(* deploymentID.String(): the ids of the model print as one digit. *)
IdString(id) == <<Digits[id + 1]>>

(* A faulty variant that prefers the generated name to the caller's. *)
generateContainerNamePreferringProject(id, containerName, projectName, deploymentName) ==
    IF projectName # <<>> /\ deploymentName # <<>>
    THEN Prefix \o sanitizeContainerName(projectName) \o <<"-">>
             \o sanitizeContainerName(deploymentName)
    ELSE IF containerName # <<>> THEN containerName
    ELSE Prefix \o IdString(id)

(* DeploymentService.generateContainerName. *)
generateContainerName(id, containerName, projectName, deploymentName) ==
    IF containerName # <<>> THEN containerName
    ELSE IF projectName # <<>> /\ deploymentName # <<>>
    THEN Prefix \o sanitizeContainerName(projectName) \o <<"-">>
             \o sanitizeContainerName(deploymentName)
    ELSE Prefix \o IdString(id)

(***************************************************************************)
(* DeploymentHandler.CreateDeployment with the service call it makes,      *)
(* DeploymentService.CreateDeploymentWithEnvFile.                          *)
(***************************************************************************)
(* The job envelope the coordinator builds from the request. *)
Envelope(id, r) ==
    [deployment_id |-> id, params_ok |-> TRUE, env_file |-> (r.upload = "saved"),
     container_name |->
         generateContainerName(id, r.container_name, r.project_name, r.deployment_name),
     ssh_password |-> r.ssh_password, github_pat |-> r.github_pat, err |-> NoError]

FaultCount(r) ==
    (IF r.deploy_fail THEN 1 ELSE 0) + (IF r.step_fail_at # 0 THEN 1 ELSE 0)
        + (IF r.queue_fail THEN 1 ELSE 0)

CreateDeployment(r) ==
    /\ faults + FaultCount(r) <= MaxFaults
    /\ faults' = faults + FaultCount(r)
    /\ UNCHANGED <<clock, pc, wjob, failedStep, finished,
                   auxVars>>
    /\ IF ~r.auth_ok
       THEN /\ resp' = Respond(r, 401, "Unauthorized", 0)
            /\ UNCHANGED <<deployments, steps, queue, jobs>>
       ELSE IF ~r.fields_ok \/ r.port = <<>>
       THEN (* ShouldBind (binding:"required") or Validate rejects it *)
            /\ resp' = Respond(r, 400, "Invalid request", 0)
            /\ UNCHANGED <<deployments, steps, queue, jobs>>
       ELSE IF r.upload = "failed"
       THEN /\ resp' = Respond(r, 500, "Internal server error", 0)
            /\ UNCHANGED <<deployments, steps, queue, jobs>>
       ELSE IF ~GetPortAsInt(r.port).ok
       THEN (* the service's "invalid port" error *)
            /\ resp' = Respond(r, 500, "Failed to create deployment", 0)
            /\ UNCHANGED <<deployments, steps, queue, jobs>>
       ELSE IF r.deploy_fail
       THEN (* repo.CreateDeployment failed *)
            /\ resp' = Respond(r, 500, "Failed to create deployment", 0)
            /\ queue' = ReturnOnWriteError(queue, Envelope(NewId, r))
            /\ UNCHANGED <<deployments, steps, jobs>>
       ELSE /\ FreeIds # {}
            /\ deployments' = [deployments EXCEPT ![NewId] =
                    [status |-> "pending", created_at |-> clock, started_at |-> Null,
                     completed_at |-> Null, error_message |-> NoError,
                     port |-> GetPortAsInt(r.port).val,
                     container_name |->
                         generateContainerName(NewId, r.container_name, r.project_name,
                                               r.deployment_name),
                     project_name |-> r.project_name,
                     deployment_name |-> r.deployment_name,
                     ssh_password_encrypted |-> r.ssh_password,
                     github_pat_encrypted |-> r.github_pat]]
            /\ steps' = [steps EXCEPT ![NewId] = createInitialSteps(r.step_fail_at)]
            /\ queue' = EnqueueDeploymentJob(queue, Envelope(NewId, r), r.queue_fail)
            /\ jobs' = [jobs EXCEPT ![NewId] = JobRecordAfterEnqueue(jobs[NewId], r.queue_fail)]
            /\ resp' = [Respond(r, 201, "", NewId) EXCEPT !.container =
                            generateContainerName(NewId, r.container_name, r.project_name,
                                                  r.deployment_name)]

(* The requests: inputs the handler does not read on a path are left at     *)
(* their defaults.  AcceptedRequests are the ones that pass validation,     *)
(* upload and the deployment row write.                                     *)
ValidPorts == {p \in PortInputs : GetPortAsInt(p).ok}

AcceptedRequests ==
    { [NoResp EXCEPT !.port = p, !.upload = u, !.step_fail_at = k, !.queue_fail = f] :
        p \in ValidPorts, u \in {"none", "saved"}, k \in StepFaults, f \in BOOLEAN }

RejectedRequests ==
    { [NoResp EXCEPT !.auth_ok = FALSE], [NoResp EXCEPT !.fields_ok = FALSE], NoResp }
    \cup { [NoResp EXCEPT !.port = p, !.upload = u] :
             p \in (PortInputs \ ValidPorts) \ {<<>>}, u \in Uploads }
    \cup { [NoResp EXCEPT !.port = p, !.upload = "failed"] : p \in ValidPorts }
    \cup { [NoResp EXCEPT !.port = p, !.upload = u, !.deploy_fail = TRUE] :
             p \in ValidPorts, u \in {"none", "saved"} }

Requests == AcceptedRequests \cup RejectedRequests

(***************************************************************************)
(* A producer other than the coordinator: the worker reads whatever        *)
(* envelope is on the shared list and validates it itself                  *)
(* (processDeploymentJob, "missing required deployment parameters").  The  *)
(* envelope refers to a deployment that has no job yet and lacks a         *)
(* required parameter.                                                     *)
(***************************************************************************)
EnqueueIncompleteJob(d) ==
    /\ deployments[d].status = "pending"
    /\ jobs[d] = "none"
    /\ queue' = EnqueueDeploymentJob(queue,
                    [deployment_id |-> d, params_ok |-> FALSE, env_file |-> FALSE,
                     container_name |-> <<>>, ssh_password |-> "", github_pat |-> "",
                     err |-> NoError], FALSE)
    /\ jobs' = [jobs EXCEPT ![d] = JobRecordAfterEnqueue(jobs[d], FALSE)]
    /\ UNCHANGED <<deployments, steps, resp, faults, clock, pc, wjob, failedStep, finished,
                   auxVars>>

(***************************************************************************)
(* The worker.  Worker.Start loops: dequeue, processDeploymentJob, and on  *)
(* an error UpdateJobStatus(failed).  Every remote operation is a step of  *)
(* its own; the store updates around it belong to the same step.           *)
(***************************************************************************)
Job(w) == wjob[w].deployment_id

SetStatus(d, status, errorMessage) ==
    deployments' = [deployments EXCEPT ![d] =
        IF deployments[d].status = "absent" THEN deployments[d]
        ELSE UpdateDeploymentStatus(deployments[d], status, errorMessage)]

(* QueueService.UpdateJobStatus from the worker: the Redis commands carry  *)
(* the worker's context and fail once it is cancelled.                      *)
UpdateJobStatus(d, status) ==
    IF proc = "up" THEN [jobs EXCEPT ![d] = status] ELSE jobs

(* A faulty variant of the dequeue that leaves the envelope in the list. *)
DequeueJobKeeping(w) ==
    /\ pc[w] = "idle"
    /\ proc = "up"
    /\ queue # <<>>
    /\ wjob' = [wjob EXCEPT ![w] = queue[Len(queue)]]
    /\ jobs' = [jobs EXCEPT ![queue[Len(queue)].deployment_id] = "running"]
    /\ pc' = [pc EXCEPT ![w] = "process"]
    /\ UNCHANGED <<deployments, steps, queue, resp, faults, clock, failedStep, finished,
                   auxVars>>

(* QueueService.DequeueJob: BRPOP, then the job record becomes running. *)
DequeueJob(w) ==
    /\ pc[w] = "idle"
    /\ proc = "up"
    /\ queue # <<>>
    /\ wjob' = [wjob EXCEPT ![w] = queue[Len(queue)]]
    /\ queue' = SubSeq(queue, 1, Len(queue) - 1)
    /\ jobs' = [jobs EXCEPT ![queue[Len(queue)].deployment_id] = "running"]
    /\ pc' = [pc EXCEPT ![w] = "process"]
    /\ UNCHANGED <<deployments, steps, resp, faults, clock, failedStep, finished,
                   auxVars>>

(* processDeploymentJob up to the SSH dial: the deployment becomes running  *)
(* and the envelope is validated.                                           *)
ProcessStart(w) ==
    /\ pc[w] = "process"
    /\ SetStatus(Job(w), "running", NoError)
    /\ IF ~wjob[w].params_ok
       THEN /\ steps' = [steps EXCEPT ![Job(w)] =
                            markAllStepsAsFailed(steps[Job(w)], MissingParams, clock)]
            /\ pc' = [pc EXCEPT ![w] = "return_err"]
       ELSE /\ pc' = [pc EXCEPT ![w] = "connect"]
            /\ UNCHANGED steps
    /\ UNCHANGED <<queue, jobs, resp, faults, clock, wjob, failedStep, finished,
                   auxVars>>

(* connectSSH and the handling of its failure. *)
ConnectSSH(w, ok) ==
    /\ pc[w] = "connect"
    /\ IF ok
       THEN /\ pc' = [pc EXCEPT ![w] = "clone"]
            /\ UNCHANGED <<deployments, steps>>
       ELSE /\ steps' = [steps EXCEPT ![Job(w)] =
                            markRemainingStepsAsFailed(
                                markStepAsFailed(steps[Job(w)], 1, ConnectFailed, clock),
                                1, clock)]
            /\ SetStatus(Job(w), "failed", ConnectFailed)
            /\ pc' = [pc EXCEPT ![w] = "return_err"]
    /\ UNCHANGED <<queue, jobs, resp, faults, clock, wjob, failedStep, finished,
                   auxVars>>

(* The head of cloneRepository, buildDockerImage, runDockerContainer[With-  *)
(* EnvFile] and healthCheck: the row of the step is set to running.         *)
BeginStep(w, at, stepOrder, next) ==
    /\ pc[w] = at
    /\ steps' = [steps EXCEPT ![Job(w)] =
                    updateDeploymentStep(steps[Job(w)], stepOrder, "running", NoError, clock)]
    /\ pc' = [pc EXCEPT ![w] = next]
    /\ UNCHANGED <<deployments, queue, jobs, resp, faults, clock, wjob, failedStep, finished,
                   auxVars>>

(* A faulty variant of the rest of a step function that goes on to the     *)
(* next step without the final update of the row.                           *)
EndStepLeavingRow(w, at, stepOrder, outcome, reason, next) ==
    /\ pc[w] = at
    /\ pc' = [pc EXCEPT ![w] = IF outcome = "ok" THEN next ELSE "abandon"]
    /\ failedStep' = [failedStep EXCEPT ![w] = IF outcome = "ok" THEN 0 ELSE stepOrder]
    /\ wjob' = [wjob EXCEPT ![w].err = IF outcome = "ok" THEN NoError ELSE reason]
    /\ UNCHANGED <<deployments, steps, queue, jobs, resp, faults, clock, finished,
                   auxVars>>

(* The rest of a step function.  outcome "ok": the row is set to completed; *)
(* "failed": a substep failed and the row is set to failed with reason;     *)
(* "unrecorded": a substep failed and the function returned the error       *)
(* without touching the row.  On an error executeDeploymentSteps goes on to *)
(* markRemainingStepsAsFailed.                                              *)
EndStep(w, at, stepOrder, outcome, reason, next) ==
    /\ pc[w] = at
    /\ steps' = [steps EXCEPT ![Job(w)] =
                    IF outcome = "ok"
                    THEN updateDeploymentStep(steps[Job(w)], stepOrder, "completed", NoError, clock)
                    ELSE IF outcome = "failed"
                    THEN updateDeploymentStep(steps[Job(w)], stepOrder, "failed", reason, clock)
                    ELSE steps[Job(w)]]
    /\ pc' = [pc EXCEPT ![w] = IF outcome = "ok" THEN next ELSE "abandon"]
    /\ failedStep' = [failedStep EXCEPT ![w] = IF outcome = "ok" THEN 0 ELSE stepOrder]
    /\ wjob' = [wjob EXCEPT ![w].err = IF outcome = "ok" THEN NoError ELSE reason]
    /\ UNCHANGED <<deployments, queue, jobs, resp, faults, clock, finished,
                   auxVars>>

CloneBegin(w) == BeginStep(w, "clone", 1, "clone_run")

(* The rest of cloneRepository.  outcome "denied": git clone failed and   *)
(* its output names the URL it was given.                                   *)
CloneRun(w, outcome) ==
    EndStep(w, "clone_run", 1, IF outcome = "denied" THEN "failed" ELSE outcome,
            IF outcome = "denied" THEN GitCloneDenied(wjob[w].github_pat) ELSE Captured,
            "build")

BuildBegin(w) == BeginStep(w, "build", 2, "build_run")

BuildRun(w, outcome) ==
    EndStep(w, "build_run", 2, outcome, Captured,
            IF wjob[w].env_file THEN "copy_env" ELSE "run")

(* copyEnvFileToTarget runs before the docker_run row is touched. *)
CopyEnvFile(w, ok) ==
    /\ pc[w] = "copy_env"
    /\ pc' = [pc EXCEPT ![w] = IF ok THEN "run" ELSE "abandon"]
    /\ failedStep' = [failedStep EXCEPT ![w] = IF ok THEN 0 ELSE 3]
    /\ UNCHANGED <<deployments, steps, queue, jobs, resp, faults, clock, wjob, finished,
                   auxVars>>

RunBegin(w) == BeginStep(w, "run", 3, "run_exec")

(* runDockerContainer returns the failure of `docker --version` without     *)
(* updating the row; runDockerContainerWithEnvFile has no such substep.     *)
RunOutcomes(w) ==
    IF wjob[w].env_file THEN {"ok", "failed"} ELSE {"ok", "failed", "unrecorded"}

RunExec(w, outcome) ==
    /\ outcome \in RunOutcomes(w)
    /\ EndStep(w, "run_exec", 3, outcome, Captured, "health")

HealthBegin(w) == BeginStep(w, "health", 4, "health_run")

HealthRun(w, outcome) == EndStep(w, "health_run", 4, outcome, Captured, "complete")

(* executeDeploymentSteps on an error of step failedStep[w]. *)
MarkRemaining(w) ==
    /\ pc[w] = "abandon"
    /\ steps' = [steps EXCEPT ![Job(w)] =
                    markRemainingStepsAsFailed(steps[Job(w)], failedStep[w], clock)]
    /\ pc' = [pc EXCEPT ![w] = "exec_failed"]
    /\ UNCHANGED <<deployments, queue, jobs, resp, faults, clock, wjob, failedStep, finished,
                   auxVars>>

(* "Deployment failed: %v" of the error executeDeploymentSteps returned,    *)
(* which wraps the error of the step function with the output it quotes.    *)
DeploymentError(err) ==
    IF \E p \in Pats : err = GitCloneDenied(p)
    THEN DeploymentFailedDenied(CHOOSE p \in Pats : err = GitCloneDenied(p))
    ELSE DeploymentFailed

(* processDeploymentJob on an error of executeDeploymentSteps. *)
FailDeployment(w) ==
    /\ pc[w] = "exec_failed"
    /\ SetStatus(Job(w), "failed", DeploymentError(wjob[w].err))
    /\ pc' = [pc EXCEPT ![w] = "return_err"]
    /\ UNCHANGED <<steps, queue, jobs, resp, faults, clock, wjob, failedStep, finished,
                   auxVars>>

(* processDeploymentJob after the last step: deployment and job record      *)
(* become completed.                                                        *)
CompleteDeployment(w) ==
    /\ pc[w] = "complete"
    /\ SetStatus(Job(w), "completed", NoError)
    /\ jobs' = UpdateJobStatus(Job(w), "completed")
    /\ finished' = finished \cup {Job(w)}
    /\ pc' = [pc EXCEPT ![w] = "idle"]
    /\ wjob' = [wjob EXCEPT ![w] = NoJob]
    /\ failedStep' = [failedStep EXCEPT ![w] = 0]
    /\ UNCHANGED <<steps, queue, resp, faults, clock,
                   auxVars>>

(* Worker.Start when processDeploymentJob returned an error. *)
ReturnError(w) ==
    /\ pc[w] = "return_err"
    /\ jobs' = UpdateJobStatus(Job(w), "failed")
    /\ finished' = finished \cup {Job(w)}
    /\ pc' = [pc EXCEPT ![w] = "idle"]
    /\ wjob' = [wjob EXCEPT ![w] = NoJob]
    /\ failedStep' = [failedStep EXCEPT ![w] = 0]
    /\ UNCHANGED <<deployments, steps, queue, resp, faults, clock,
                   auxVars>>

Outcomes == {"ok", "failed"}

Next ==
    \/ Tick
    \/ \E r \in AcceptedRequests : CreateDeployment(r)
    \/ \E d \in Ids : EnqueueIncompleteJob(d)
    \/ \E w \in Workers : DequeueJob(w)
    \/ \E w \in Workers : ProcessStart(w)
    \/ \E w \in Workers, ok \in BOOLEAN : ConnectSSH(w, ok)
    \/ \E w \in Workers : CloneBegin(w)
    \/ \E w \in Workers, o \in Outcomes : CloneRun(w, o)
    \/ \E w \in Workers : BuildBegin(w)
    \/ \E w \in Workers, o \in Outcomes : BuildRun(w, o)
    \/ \E w \in Workers, ok \in BOOLEAN : CopyEnvFile(w, ok)
    \/ \E w \in Workers : RunBegin(w)
    \/ \E w \in Workers, o \in Outcomes \cup {"unrecorded"} : RunExec(w, o)
    \/ \E w \in Workers : HealthBegin(w)
    \/ \E w \in Workers, o \in Outcomes : HealthRun(w, o)
    \/ \E w \in Workers : MarkRemaining(w)
    \/ \E w \in Workers : FailDeployment(w)
    \/ \E w \in Workers : CompleteDeployment(w)
    \/ \E w \in Workers : ReturnError(w)

Spec == Init /\ [][Next]_vars

(* The coordinator and the queue under every request, rejected ones too. *)
NextApi ==
    \/ Tick
    \/ \E r \in Requests : CreateDeployment(r)
    \/ \E d \in Ids : EnqueueIncompleteJob(d)
    \/ \E w \in Workers : DequeueJob(w)

SpecApi == Init /\ [][NextApi]_vars

(***************************************************************************)
(* The port conversion under the port strings around its limits: create    *)
(* requests that differ in the port only and meet no fault.                *)
(***************************************************************************)
PortStrings ==
    { <<>>, <<"0">>, <<"1">>, <<"8", "0">>, <<"+", "8", "0">>, <<"0", "8", "0">>,
      <<"6", "5", "5", "3", "5">>, <<"6", "5", "5", "3", "6">>,
      <<"9", "9", "9", "9", "9">>, <<"-", "1">>, <<"+">>, <<"8", "o">>,
      <<" ", "8", "0">> }

PortRequests == { [NoResp EXCEPT !.port = p] : p \in PortStrings }

NextPort == \E r \in PortRequests : CreateDeployment(r)

SpecPort == Init /\ [][NextPort]_vars

(***************************************************************************)
(* The create request under container, project and deployment names.       *)
(***************************************************************************)
NameAlphabet == {"a", "Q", "1", "-", "!", " "}

ShortNames == UNION {[1..n -> NameAlphabet] : n \in 0..MaxNameLen}

(* Names around the length limit of sanitizeContainerName. *)
LongNames ==
    { [i \in 1..(NameLimit - 1) |-> "a"] \o tail :
        tail \in {<<"b">>, <<"b", "c">>, <<"-", "b">>, <<"-">>, <<"!", "!">>} }

ProjectPQ == <<"P", "!", " ", "Q">>

DeploymentDep1 == <<"D", "e", "p", " ", "1">>

ServiceA == <<"s", "v", "c", "-", "a">>

NameRequests ==
    { [NoResp EXCEPT !.port = <<"8", "0">>, !.project_name = n, !.deployment_name = DeploymentDep1] :
        n \in ShortNames \cup LongNames }
    \cup { [NoResp EXCEPT !.port = <<"8", "0">>, !.container_name = c, !.project_name = n,
                          !.deployment_name = d] :
             c \in {<<>>, ServiceA}, n \in {<<>>, ProjectPQ}, d \in {<<>>, DeploymentDep1} }

NextName == \E r \in NameRequests : CreateDeployment(r)

SpecName == Init /\ [][NextName]_vars

(***************************************************************************)
(* The read results.  Every deployment belongs to the one user of the      *)
(* model.                                                                   *)
(***************************************************************************)
(* The DeploymentResponse built from a stored row. *)
DeploymentResponse(id, row) ==
    [id |-> id, status |-> row.status, port |-> row.port,
     container_name |-> row.container_name, created_at |-> row.created_at,
     started_at |-> row.started_at, completed_at |-> row.completed_at,
     error_message |-> row.error_message, project_name |-> row.project_name,
     deployment_name |-> row.deployment_name]

(* DeploymentService.GetDeployment of a deployment that exists. *)
GetDeployment(d) == DeploymentResponse(d, deployments[d])

(* DeploymentService.GetDeploymentsByUser: the responses of the user's     *)
(* deployments, as a set (the order is by created_at).                      *)
GetDeploymentsByUser ==
    { GetDeployment(d) : d \in {e \in Ids : deployments[e].status # "absent"} }

(* Requests that differ in the secrets only, and in nothing else. *)
ReadRequests ==
    { [NoResp EXCEPT !.port = <<"8", "0">>, !.container_name = ServiceA,
                     !.ssh_password = pw, !.github_pat = pat] :
        pw \in Passwords, pat \in Pats }

NextRead ==
    \/ \E r \in ReadRequests : CreateDeployment(r)
    \/ \E w \in Workers : DequeueJob(w)
    \/ \E w \in Workers : ProcessStart(w)
    \/ \E w \in Workers, ok \in BOOLEAN : ConnectSSH(w, ok)
    \/ \E w \in Workers : CloneBegin(w)
    \/ \E w \in Workers, o \in Outcomes \cup {"denied"} : CloneRun(w, o)
    \/ \E w \in Workers : BuildBegin(w)
    \/ \E w \in Workers, o \in Outcomes : BuildRun(w, o)
    \/ \E w \in Workers : RunBegin(w)
    \/ \E w \in Workers, o \in Outcomes \cup {"unrecorded"} : RunExec(w, o)
    \/ \E w \in Workers : HealthBegin(w)
    \/ \E w \in Workers, o \in Outcomes : HealthRun(w, o)
    \/ \E w \in Workers : MarkRemaining(w)
    \/ \E w \in Workers : FailDeployment(w)
    \/ \E w \in Workers : CompleteDeployment(w)
    \/ \E w \in Workers : ReturnError(w)

SpecRead == Init /\ [][NextRead]_vars

(***************************************************************************)
(* The job queue at the granularity of single Redis commands.              *)
(*   rqueue     the list "deployknot:queue:deployments" (job ids; LPUSH    *)
(*              adds at index 1, BRPOP takes the last element)             *)
(*   rjob[j]    the key "deployknot:job:<j>", NoRecord while absent        *)
(*   enq[j]     position of the EnqueueDeploymentJob call for job j        *)
(*   wk[w]      position of worker w in Worker.Start                       *)
(*   pushed, popped   the jobs in the order of their LPUSH and BRPOP       *)
(*   dstatus[j] status of the deployment of job j                          *)
(*   handled    jobs whose loop iteration has ended                        *)
(* Each enqueue call runs in the goroutine of its request, so calls        *)
(* overlap; a worker process may die at any point of an iteration.         *)
(* processDeploymentJob is seen from the loop: it sets the deployment to   *)
(* running, ends it completed or failed (or leaves it running when the     *)
(* envelope is incomplete), and returns.                                   *)
(***************************************************************************)
coreVars == <<deployments, steps, queue, jobs, resp, clock, pc, wjob, failedStep, finished>>

(* The job as EnqueueDeploymentJob marshals it. *)
EnqueuedRecord == [status |-> "pending", started_at |-> Null, completed_at |-> Null]

(* DequeueJob: the job parsed from the envelope, set to running. *)
DequeuedRecord(envelope, now) == [envelope EXCEPT !.status = "running", !.started_at = now]

(* UpdateJobStatus on the record it read. *)
UpdatedRecord(record, status, now) ==
    [record EXCEPT !.status = status,
                   !.completed_at = IF status \in {"completed", "failed"} THEN now ELSE @]

(* Faulty variants of the pop: one that leaves the element in the list,    *)
(* one that takes the head, one that puts the element back at the head.    *)
BRPopKeeping(list) == [job |-> list[Len(list)], rest |-> list]

BRPopHead(list) == [job |-> list[1], rest |-> Tail(list)]

BRPopRequeueing(list) ==
    [job |-> list[Len(list)], rest |-> <<list[Len(list)]>> \o SubSeq(list, 1, Len(list) - 1)]

(* BRPOP on a list that is not empty. *)
BRPop(list) == [job |-> list[Len(list)], rest |-> SubSeq(list, 1, Len(list) - 1)]

(* EnqueueDeploymentJob, first half: LPUSH; on a failure the call returns. *)
(* Jobs are numbered in the order of their LPUSH.                           *)
LPushJob(j, fail) ==
    /\ enq[j] = "new"
    /\ \A i \in JobIds : i < j => enq[i] # "new"
    /\ fail => faults < MaxFaults
    /\ faults' = IF fail THEN faults + 1 ELSE faults
    /\ rqueue' = EnqueueDeploymentJob(rqueue, j, fail)
    /\ pushed' = IF fail THEN pushed ELSE Append(pushed, j)
    /\ enq' = [enq EXCEPT ![j] = IF fail THEN "failed" ELSE "pushed"]
    /\ UNCHANGED <<coreVars, rjob, wk, popped, dstatus, handled, streamVars, procVars>>

(* EnqueueDeploymentJob, second half: SET of the job record; a failure is  *)
(* logged.                                                                  *)
SetJobRecord(j, fail) ==
    /\ enq[j] = "pushed"
    /\ fail => faults < MaxFaults
    /\ faults' = IF fail THEN faults + 1 ELSE faults
    /\ rjob' = IF fail THEN rjob ELSE [rjob EXCEPT ![j] = EnqueuedRecord]
    /\ enq' = [enq EXCEPT ![j] = "recorded"]
    /\ UNCHANGED <<coreVars, rqueue, wk, pushed, popped, dstatus, handled, streamVars, procVars>>

(* DequeueJob, first half: BRPOP returns an envelope. *)
PopJob(w) ==
    /\ wk[w].pc = "brpop"
    /\ rqueue # <<>>
    /\ rqueue' = BRPop(rqueue).rest
    /\ popped' = Append(popped, BRPop(rqueue).job)
    /\ wk' = [wk EXCEPT ![w] = [IdleWorker EXCEPT !.pc = "popped", !.job = BRPop(rqueue).job]]
    /\ UNCHANGED <<coreVars, faults, rjob, enq, pushed, dstatus, handled, streamVars, procVars>>

(* DequeueJob, second half: SET of the record, running and stamped. *)
SetRunning(w) ==
    /\ wk[w].pc = "popped"
    /\ rjob' = [rjob EXCEPT ![wk[w].job] = DequeuedRecord(EnqueuedRecord, clock)]
    /\ wk' = [wk EXCEPT ![w].pc = "start"]
    /\ UNCHANGED <<coreVars, faults, rqueue, enq, pushed, popped, dstatus, handled, streamVars, procVars>>

(* processDeploymentJob: the deployment becomes running. *)
BeginJob(w) ==
    /\ wk[w].pc = "start"
    /\ dstatus' = [dstatus EXCEPT ![wk[w].job] = "running"]
    /\ wk' = [wk EXCEPT ![w].pc = "work"]
    /\ UNCHANGED <<coreVars, faults, rqueue, rjob, enq, pushed, popped, handled, streamVars, procVars>>

(* processDeploymentJob: the pipeline ends.  "completed": the deployment   *)
(* is completed and processDeploymentJob goes on to UpdateJobStatus;       *)
(* "failed": the deployment is failed and the error is returned to the     *)
(* loop; "rejected": the envelope is incomplete and the error is returned  *)
(* with the deployment left running.  The loop answers an error with       *)
(* UpdateJobStatus(failed).                                                 *)
JobOutcomes == {"completed", "failed", "rejected"}

RunJob(w, outcome) ==
    /\ wk[w].pc = "work"
    /\ dstatus' = [dstatus EXCEPT ![wk[w].job] =
                      IF outcome = "rejected" THEN @ ELSE outcome]
    /\ wk' = [wk EXCEPT ![w].pc = "update_get",
                        ![w].target = IF outcome = "completed" THEN "completed" ELSE "failed"]
    /\ UNCHANGED <<coreVars, faults, rqueue, rjob, enq, pushed, popped, handled, streamVars, procVars>>

(* UpdateJobStatus, first half: GET; a missing key is an error, which the  *)
(* caller logs or ignores, and the iteration ends.                          *)
GetJobRecord(w) ==
    /\ wk[w].pc = "update_get"
    /\ IF rjob[wk[w].job] = NoRecord
       THEN /\ wk' = [wk EXCEPT ![w] = IdleWorker]
            /\ handled' = handled \cup {wk[w].job}
       ELSE /\ wk' = [wk EXCEPT ![w].pc = "update_set", ![w].got = rjob[wk[w].job]]
            /\ UNCHANGED handled
    /\ UNCHANGED <<coreVars, faults, rqueue, rjob, enq, pushed, popped, dstatus, streamVars, procVars>>

(* UpdateJobStatus, second half: SET of the record read, with the new      *)
(* status; the iteration ends and the loop goes back to DequeueJob.         *)
SetJobStatus(w) ==
    /\ wk[w].pc = "update_set"
    /\ rjob' = [rjob EXCEPT ![wk[w].job] = UpdatedRecord(wk[w].got, wk[w].target, clock)]
    /\ handled' = handled \cup {wk[w].job}
    /\ wk' = [wk EXCEPT ![w] = IdleWorker]
    /\ UNCHANGED <<coreVars, faults, rqueue, enq, pushed, popped, dstatus, streamVars, procVars>>

(* The worker process dies while it holds a job; nothing in DequeueJob or  *)
(* Worker.Start puts the job back.                                          *)
Crash(w) ==
    /\ wk[w].pc \in {"popped", "start", "work", "update_get", "update_set"}
    /\ wk' = [wk EXCEPT ![w].pc = "crashed"]
    /\ UNCHANGED <<coreVars, faults, rqueue, rjob, enq, pushed, popped, dstatus, handled,
                   streamVars, procVars>>

NextQueue ==
    \/ \E j \in JobIds, fail \in BOOLEAN : LPushJob(j, fail)
    \/ \E j \in JobIds, fail \in BOOLEAN : SetJobRecord(j, fail)
    \/ \E w \in QueueWorkers : PopJob(w)
    \/ \E w \in QueueWorkers : SetRunning(w)
    \/ \E w \in QueueWorkers : BeginJob(w)
    \/ \E w \in QueueWorkers, o \in JobOutcomes : RunJob(w, o)
    \/ \E w \in QueueWorkers : GetJobRecord(w)
    \/ \E w \in QueueWorkers : SetJobStatus(w)
    \/ \E w \in QueueWorkers : Crash(w)

SpecQueue == Init /\ [][NextQueue]_vars

(***************************************************************************)
(* The log stream: streamDeploymentLogs over the deployment_logs table.    *)
(* logs is the table of one deployment in the order of created_at, the     *)
(* order in which GetDeploymentLogs returns it; stream is the handler:     *)
(* its position, its lastLogID and the log events it has sent (the          *)
(* connected and heartbeat events carry no log and are left out).  Log ids *)
(* are random UUIDs compared as strings of one width and case, modelled as *)
(* numbers compared with <; the zero UUID is 0.                             *)
(***************************************************************************)
InitialLimit == 50

PollLimit == 100

ZeroId == 0

(* The deployment whose logs are streamed. *)
Streamed == 1

Min(a, b) == IF a < b THEN a ELSE b

(* Tables of n rows written before the observer attaches. *)
Population(n) == [i \in 1..n |-> [id |-> MaxLogs + i, created_at |-> i]]

LogPopulations ==
    {Population(n) : n \in {0, InitialLimit, InitialLimit + 1, PollLimit + 1}}

(* The ids uuid.New may give a log written later: below and above the ids  *)
(* of the rows written before.                                              *)
NewLogIds == (1..MaxLogs) \cup {MaxLogs + PollLimit + 1 + i : i \in 1..MaxLogs}

(* The observer has not attached.  A deployment that has logs is running: *)
(* the worker writes the first log after it has set it running.             *)
InitStream ==
    /\ CoreInit
    /\ RedisInit
    /\ logs \in LogPopulations
    /\ dstatus = [j \in JobIds |->
                     IF j = Streamed /\ logs # <<>> THEN "running" ELSE "pending"]
    /\ stream = NoStream
    /\ ProcInit

(* GetDeploymentLogs: ORDER BY created_at ASC LIMIT limit. *)
GetDeploymentLogs(rows, limit) == SubSeq(rows, 1, Min(limit, Len(rows)))

(* The greatest of last and the ids of the rows. *)
GreatestId(rows, last) ==
    CHOOSE m \in {last} \cup {rows[i].id : i \in 1..Len(rows)} :
        /\ m >= last
        /\ \A i \in 1..Len(rows) : m >= rows[i].id

(* The loop over the initial logs: every row is sent, in the order read;   *)
(* lastLogID is raised to each id greater than it, so it ends as the       *)
(* greatest id.                                                             *)
SendInitial(rows, last, sent) ==
    [lastLogID |-> GreatestId(rows, last), events |-> sent \o rows]

(* A faulty variant of the loop that sends every row it has read. *)
SendNewResending(rows, last, sent) ==
    [lastLogID |-> GreatestId(rows, last), events |-> sent \o rows]

(* The loop over the polled logs: a row is sent when its id is greater     *)
(* than lastLogID, which then becomes that id.  When the loop reaches a    *)
(* row, lastLogID is the greatest of its value before the poll and the ids *)
(* of the rows read before that row.                                        *)
SendNew(rows, last, sent) ==
    LET IsNew(row) ==
            /\ row.id > last
            /\ \A i \in 1..Len(rows) :
                   rows[i].created_at < row.created_at => row.id > rows[i].id
    IN  [lastLogID |-> GreatestId(rows, last), events |-> sent \o SelectSeq(rows, IsNew)]

(* AddDeploymentLog: a row with a fresh random id and created_at now. *)
NewLog(id) ==
    /\ \A i \in 1..Len(logs) : logs[i].id # id
    /\ Cardinality({i \in 1..Len(logs) : logs[i].id \in NewLogIds}) < MaxLogs
    /\ logs' = Append(logs, [id |-> id, created_at |-> Len(logs) + 1])

(* A log the worker writes while the deployment is running. *)
AddDeploymentLog(id) ==
    /\ dstatus[Streamed] = "running"
    /\ NewLog(id)
    /\ UNCHANGED <<coreVars, faults, queueVars, stream, procVars>>

(* The last log of processDeploymentJob, written after the deployment has  *)
(* been set completed; the iteration of the job then ends.  After it has   *)
(* set the deployment failed the worker writes no log.                      *)
AddLastLog(id) ==
    /\ dstatus[Streamed] = "completed"
    /\ Streamed \notin handled
    /\ NewLog(id)
    /\ handled' = handled \cup {Streamed}
    /\ UNCHANGED <<coreVars, faults, rqueue, rjob, enq, wk, pushed, popped, dstatus, stream, procVars>>

(* processDeploymentJob sets the streamed deployment running. *)
StreamedRuns ==
    /\ dstatus[Streamed] = "pending"
    /\ dstatus' = [dstatus EXCEPT ![Streamed] = "running"]
    /\ UNCHANGED <<coreVars, faults, rqueue, rjob, enq, wk, pushed, popped, handled, streamVars, procVars>>

(* processDeploymentJob sets the streamed deployment completed or failed. *)
StreamedEnds(outcome) ==
    /\ dstatus[Streamed] = "running"
    /\ dstatus' = [dstatus EXCEPT ![Streamed] = outcome]
    /\ UNCHANGED <<coreVars, faults, rqueue, rjob, enq, wk, pushed, popped, handled, streamVars, procVars>>

(* streamDeploymentLogs up to the loop: the initial logs. *)
Attach ==
    /\ stream.pc = "detached"
    /\ stream' = [pc |-> "polling",
                  lastLogID |-> SendInitial(GetDeploymentLogs(logs, InitialLimit), ZeroId, <<>>).lastLogID,
                  events |-> SendInitial(GetDeploymentLogs(logs, InitialLimit), ZeroId, <<>>).events]
    /\ UNCHANGED <<coreVars, faults, queueVars, logs, procVars>>

(* One tick of the loop: the poll. *)
Poll ==
    /\ stream.pc = "polling"
    /\ stream' = [pc |-> "polling",
                  lastLogID |-> SendNew(GetDeploymentLogs(logs, PollLimit), stream.lastLogID, stream.events).lastLogID,
                  events |-> SendNew(GetDeploymentLogs(logs, PollLimit), stream.lastLogID, stream.events).events]
    /\ UNCHANGED <<coreVars, faults, queueVars, logs, procVars>>

(* The loop's other case: the client has gone, the handler returns. *)
Disconnect ==
    /\ stream.pc = "polling"
    /\ stream' = [stream EXCEPT !.pc = "ended"]
    /\ UNCHANGED <<coreVars, faults, queueVars, logs, procVars>>

NextStream ==
    \/ \E id \in NewLogIds : AddDeploymentLog(id)
    \/ \E id \in NewLogIds : AddLastLog(id)
    \/ StreamedRuns
    \/ \E outcome \in {"completed", "failed"} : StreamedEnds(outcome)
    \/ Attach
    \/ Poll
    \/ Disconnect

SpecStream == InitStream /\ [][NextStream]_vars

(* The ticker fires every second for as long as the handler runs, so a     *)
(* poll that has something to send is not put off for ever.                 *)
SpecStreamLive == SpecStream /\ WF_vars(Poll)

(***************************************************************************)
(* The worker process under a shutdown signal.  main cancels the worker's  *)
(* context on SIGINT or SIGTERM, sleeps five seconds and returns, which    *)
(* ends the process; Worker.Start returns when it finds the context        *)
(* cancelled at the top of its loop.  processDeploymentJob and the step    *)
(* functions never read the context.                                        *)
(***************************************************************************)
workerVars == <<deployments, steps, queue, jobs, resp, faults, clock, wjob, failedStep, finished>>

(* main: the signal arrives and the context is cancelled. *)
Signal ==
    /\ proc = "up"
    /\ proc' = "signalled"
    /\ UNCHANGED <<workerVars, pc, queueVars, streamVars, run, host>>

(* Worker.Start at the top of the loop: the context is done. *)
Shutdown(w) ==
    /\ proc = "signalled"
    /\ pc[w] = "idle"
    /\ pc' = [pc EXCEPT ![w] = "exited"]
    /\ UNCHANGED <<workerVars, queueVars, streamVars, procVars>>

(* main returns after its sleep: the process ends wherever the worker is. *)
Exit ==
    /\ proc = "signalled"
    /\ proc' = "exited"
    /\ pc' = [w \in Workers |-> "exited"]
    /\ UNCHANGED <<workerVars, queueVars, streamVars, run, host>>

CancelRequests ==
    { [NoResp EXCEPT !.port = <<"8", "0">>, !.upload = u] : u \in {"none", "saved"} }

NextCancel ==
    \/ \E r \in CancelRequests : CreateDeployment(r)
    \/ \E w \in Workers : DequeueJob(w)
    \/ \E w \in Workers : ProcessStart(w)
    \/ \E w \in Workers, ok \in BOOLEAN : ConnectSSH(w, ok)
    \/ \E w \in Workers : CloneBegin(w)
    \/ \E w \in Workers, o \in Outcomes : CloneRun(w, o)
    \/ \E w \in Workers : BuildBegin(w)
    \/ \E w \in Workers, o \in Outcomes : BuildRun(w, o)
    \/ \E w \in Workers, ok \in BOOLEAN : CopyEnvFile(w, ok)
    \/ \E w \in Workers : RunBegin(w)
    \/ \E w \in Workers, o \in Outcomes \cup {"unrecorded"} : RunExec(w, o)
    \/ \E w \in Workers : HealthBegin(w)
    \/ \E w \in Workers, o \in Outcomes : HealthRun(w, o)
    \/ \E w \in Workers : MarkRemaining(w)
    \/ \E w \in Workers : FailDeployment(w)
    \/ \E w \in Workers : CompleteDeployment(w)
    \/ \E w \in Workers : ReturnError(w)
    \/ Signal
    \/ \E w \in Workers : Shutdown(w)
    \/ Exit

SpecCancel == Init /\ [][NextCancel]_vars

(***************************************************************************)
(* The docker run step of one job under an env input.  Texts are          *)
(* sequences of one-character strings.                                      *)
(***************************************************************************)
(* The k-th smallest element of a set of numbers. *)
Nth(S, k) == CHOOSE i \in S : Cardinality({j \in S : j < i}) = k - 1

(* strings.Split(s, "\n"). *)
SplitLines(s) ==
    LET breaks == {i \in 1..Len(s) : s[i] = "\n"}
        ends == breaks \cup {0, Len(s) + 1}
    IN  [k \in 1..(Cardinality(breaks) + 1) |->
            SubSeq(s, Nth(ends, k) + 1, Nth(ends, k + 1) - 1)]

(* strings.Trim(s, cutset). *)
Trim(s, cutset) ==
    LET kept == {i \in 1..Len(s) : s[i] \notin cutset}
    IN  IF kept = {} THEN <<>>
        ELSE SubSeq(s, CHOOSE i \in kept : \A j \in kept : i <= j,
                       CHOOSE i \in kept : \A j \in kept : i >= j)

WhiteSpace == {" ", "\t", "\r", "\n"}

(* strings.TrimSpace. *)
TrimSpace(s) == Trim(s, WhiteSpace)

Quotes == {"\"", "'"}

(* The index of the first "=" of a line that has one. *)
FirstEquals(line) == CHOOSE i \in 1..Len(line) : line[i] = "=" /\ \A j \in 1..(i - 1) : line[j] # "="

(* The lines processEnvironmentVariables keeps: not empty, not a comment,  *)
(* with a "=".                                                              *)
IsVariable(line) ==
    /\ TrimSpace(line) # <<>>
    /\ Head(TrimSpace(line)) # "#"
    /\ \E i \in 1..Len(line) : line[i] = "="

(* KEY=VALUE as processEnvironmentVariables rewrites it. *)
FormatLine(line) ==
    LET t == TrimSpace(line)
    IN  TrimSpace(SubSeq(t, 1, FirstEquals(t) - 1)) \o <<"=">>
            \o Trim(TrimSpace(SubSeq(t, FirstEquals(t) + 1, Len(t))), Quotes)

(* strings.Join(lines, "\n"). *)
RECURSIVE Join(_)
Join(lines) ==
    IF lines = <<>> THEN <<>>
    ELSE IF Len(lines) = 1 THEN lines[1]
    ELSE lines[1] \o <<"\n">> \o Join(Tail(lines))

(* Worker.processEnvironmentVariables. *)
processEnvironmentVariables(envVars) ==
    LET kept == SelectSeq(SplitLines(envVars), IsVariable)
    IN  Join([k \in 1..Len(kept) |-> FormatLine(kept[k])])

EnvAlphabet == {"K", "=", " ", "\"", "#", "\n"}

EnvInputs == UNION {[1..n -> EnvAlphabet] : n \in 0..MaxEnvLen}

(* runDockerContainer with the inline env string of the envelope: a string *)
(* that is not empty is processed and written to an env file, which the    *)
(* docker run command then names.                                           *)
RunInline(envVars) ==
    /\ run.source = "none"
    /\ run' = [source |-> "inline", input |-> envVars,
               written |-> IF envVars # <<>> THEN processEnvironmentVariables(envVars) ELSE <<>>,
               env_file |-> envVars # <<>>]
    /\ UNCHANGED <<coreVars, faults, queueVars, streamVars, proc, host>>

(* runDockerContainerWithEnvFile with the uploaded file, which             *)
(* copyEnvFileToTarget has copied as it is: the docker run command names   *)
(* the copy whatever it holds.                                              *)
RunUploaded(content) ==
    /\ run.source = "none"
    /\ run' = [source |-> "upload", input |-> content, written |-> content,
               env_file |-> TRUE]
    /\ UNCHANGED <<coreVars, faults, queueVars, streamVars, proc, host>>

NextEnv ==
    \/ \E envVars \in EnvInputs : RunInline(envVars)
    \/ \E content \in EnvInputs : RunUploaded(content)

SpecEnv == Init /\ [][NextEnv]_vars

(***************************************************************************)
(* Two workers deploying to the same target host, each its own deployment  *)
(* with its own container name, port and uploaded env file.  host.app is   *)
(* the deployment whose working copy is at /tmp/deployknot-app,            *)
(* host.uploaded the one whose env file is at /tmp/deployknot-uploaded.env,*)
(* host.copied the one whose env file is at ./deployknot.env (0: none);    *)
(* host.image[d] is the working copy the image of d was built from and     *)
(* host.container[d] the image and env file the container of d was started *)
(* with.                                                                    *)
(***************************************************************************)
HostStep(w, at, next) ==
    /\ host.pc[w] = at
    /\ UNCHANGED <<coreVars, faults, queueVars, streamVars, proc, run>>

(* A faulty variant of the removal that leaves the directory. *)
RemoveAppKeeping(h) == h

(* rm -rf /tmp/deployknot-app. *)
RemoveApp(h) == [h EXCEPT !.app = 0]

(* docker rm -f {name} || true: the container of the name, running or      *)
(* stopped, is removed.                                                     *)
RemoveContainer(h, d) == [h EXCEPT !.container[d] = NoContainer]

(* docker rmi {name}:latest || true: the image is removed unless a          *)
(* container of it exists.                                                  *)
RemoveImage(h, d) ==
    IF h.container[d].status # "absent" THEN h ELSE [h EXCEPT !.image[d] = 0]

(* cloneRepository: rm -rf /tmp/deployknot-app. *)
HostCleanup(w) ==
    /\ HostStep(w, "cleanup", "clone")
    /\ host' = [RemoveApp(host) EXCEPT !.pc[w] = "clone"]

(* cloneRepository: git clone into /tmp/deployknot-app, which fails when   *)
(* the directory exists and is not empty, or for a reason of its own        *)
(* (ok FALSE).                                                              *)
HostClone(w, ok) ==
    /\ HostStep(w, "clone", "remove")
    /\ host' = IF ok /\ host.app = 0
               THEN [host EXCEPT !.pc[w] = "remove", !.app = HostJob(w)]
               ELSE [host EXCEPT !.pc[w] = "failed"]

(* buildDockerImage: docker rm -f and docker rmi of the name. *)
HostRemove(w) ==
    /\ HostStep(w, "remove", "build")
    /\ host' = [RemoveImage(RemoveContainer(host, HostJob(w)), HostJob(w))
                    EXCEPT !.pc[w] = "build"]

(* buildDockerImage: cd /tmp/deployknot-app && docker build, which fails   *)
(* without the directory, or for a reason of its own (ok FALSE).            *)
HostBuild(w, ok) ==
    /\ HostStep(w, "build", "upload")
    /\ host' = IF ok /\ host.app # 0
               THEN [host EXCEPT !.pc[w] = "upload", !.image[HostJob(w)] = host.app]
               ELSE [host EXCEPT !.pc[w] = "failed"]

(* copyEnvFileToTarget: the env file is written to                         *)
(* /tmp/deployknot-uploaded.env.                                            *)
HostUpload(w) ==
    /\ HostStep(w, "upload", "copy")
    /\ host' = [host EXCEPT !.pc[w] = "copy", !.uploaded = HostJob(w)]

(* runDockerContainerWithEnvFile: cp of the uploaded file to               *)
(* ./deployknot.env.                                                        *)
HostCopy(w) ==
    /\ HostStep(w, "copy", "run")
    /\ host' = [host EXCEPT !.pc[w] = "run", !.copied = host.uploaded]

(* docker run -d --name {name} with the env file of deployment env: it     *)
(* fails when a container of the name exists.                               *)
DockerRun(h, w, env) ==
    IF h.container[HostJob(w)].status = "absent"
    THEN [h EXCEPT !.pc[w] = "done",
                   !.container[HostJob(w)] =
                       [image |-> h.image[HostJob(w)], env |-> env, status |-> "running"]]
    ELSE [h EXCEPT !.pc[w] = "failed"]

(* runDockerContainerWithEnvFile: docker run --env-file ./deployknot.env. *)
HostRun(w) ==
    /\ HostStep(w, "run", "done")
    /\ host' = DockerRun(host, w, host.copied)

(* runDockerContainer, the job without an uploaded env file: docker stop   *)
(* and docker rm of the name.                                               *)
HostStop(w) ==
    /\ HostStep(w, "upload", "run_inline")
    /\ host' = [RemoveContainer(host, HostJob(w)) EXCEPT !.pc[w] = "run_inline"]

(* runDockerContainer: docker run with /tmp/deployknot-env-{id}.env. *)
HostRunInline(w) ==
    /\ HostStep(w, "run_inline", "done")
    /\ host' = DockerRun(host, w, HostJob(w))

NextHost ==
    \/ \E w \in QueueWorkers : HostCleanup(w)
    \/ \E w \in QueueWorkers : HostClone(w, TRUE)
    \/ \E w \in QueueWorkers : HostRemove(w)
    \/ \E w \in QueueWorkers : HostBuild(w, TRUE)
    \/ \E w \in QueueWorkers : HostUpload(w)
    \/ \E w \in QueueWorkers : HostCopy(w)
    \/ \E w \in QueueWorkers : HostRun(w)

SpecHost == Init /\ [][NextHost]_vars

(***************************************************************************)
(* One worker deploying again and again to a target that holds what        *)
(* earlier deployments have left: a working copy and env files of this or  *)
(* another deployment, an image and a container, running or stopped, of    *)
(* this container name.                                                     *)
(***************************************************************************)
StaleHosts ==
    { [NoHost EXCEPT !.app = a, !.uploaded = u, !.copied = c, !.image[1] = i,
                     !.container[1] = k] :
        a \in {0, 1, 2}, u \in {0, 1, 2}, c \in {0, 1, 2}, i \in {0, 1},
        k \in {NoContainer} \cup
               { [image |-> 1, env |-> e, status |-> st] :
                   e \in {0, 1}, st \in {"running", "stopped"} } }

InitTarget ==
    /\ CoreInit
    /\ QueueInit
    /\ StreamInit
    /\ proc = "up"
    /\ run = NoRun
    /\ host \in StaleHosts

(* The next deployment of the same name begins. *)
HostRedeploy(w) ==
    /\ host.pc[w] \in {"done", "failed"}
    /\ host' = [host EXCEPT !.pc[w] = "cleanup"]
    /\ UNCHANGED <<coreVars, faults, queueVars, streamVars, proc, run>>

NextTarget ==
    \/ HostCleanup("w1")
    \/ HostClone("w1", TRUE)
    \/ HostRemove("w1")
    \/ HostBuild("w1", TRUE)
    \/ HostUpload("w1")
    \/ HostCopy("w1")
    \/ HostRun("w1")
    \/ HostStop("w1")
    \/ HostRunInline("w1")
    \/ HostRedeploy("w1")

SpecTarget == InitTarget /\ [][NextTarget]_vars

(* The same with a clone or a build that fails for a reason of its own. *)
NextTargetFaulty ==
    \/ NextTarget
    \/ HostClone("w1", FALSE)
    \/ HostBuild("w1", FALSE)

SpecTargetFaulty == InitTarget /\ [][NextTargetFaulty]_vars

(***************************************************************************)
(* Properties                                                              *)
(***************************************************************************)
Rows(d) == 1..Len(steps[d])

Terminal == {"completed", "failed", "cancelled", "aborted"}

StepNames(rows) == [i \in 1..Len(rows) |-> rows[i].step_name]

StepOrders(rows) == [i \in 1..Len(rows) |-> rows[i].step_order]

(* C1: in every reachable state, a deployment whose status is completed has *)
(* every one of its step rows in status completed.                          *)
C1_CompletedHasAllStepsCompleted ==
    \A d \in Ids :
        deployments[d].status = "completed"
            => \A i \in Rows(d) : steps[d][i].status = "completed"

(* C2: after a successful create (all writes went through) the deployment   *)
(* has exactly four step rows, with step_order 1..4 and the names           *)
(* git_clone, docker_build, docker_run, health_check in that order.         *)
C2_FourStepRows ==
    (resp.code = 201 /\ resp.step_fail_at = 0)
        => /\ StepNames(steps[resp.id])
                = <<"git_clone", "docker_build", "docker_run", "health_check">>
           /\ StepOrders(steps[resp.id]) = <<1, 2, 3, 4>>

(* C3: finalization always happens: when the worker is done with a job it   *)
(* dequeued, whatever the envelope held and whichever remote operation      *)
(* failed, the deployment is completed or failed and is not left running.   *)
C3_FinishedIsFinalized ==
    \A d \in finished : deployments[d].status \in {"completed", "failed"}

(* C4: once the worker has finished processing a deployment, for any step   *)
(* row with status failed and order k, every step row of that deployment    *)
(* with order > k has status failed and a non-null error_message.           *)
C4_LaterStepsFailed ==
    \A d \in finished : \A i, j \in Rows(d) :
        (steps[d][i].status = "failed" /\ steps[d][j].step_order > steps[d][i].step_order)
            => (steps[d][j].status = "failed" /\ steps[d][j].error_message # NoError)

(* A finished deployment whose third row failed with a captured reason      *)
(* after two completed rows, and whose fifth row was abandoned.             *)
C4_Witness ==
    \E d \in finished :
        /\ Len(steps[d]) = 5
        /\ steps[d][2].status = "completed"
        /\ steps[d][3].status = "failed" /\ steps[d][3].error_message = Captured
        /\ steps[d][5].status = "failed" /\ steps[d][5].error_message = Abandoned(3)

HasFailed(rows) == \E i \in 1..Len(rows) : rows[i].status = "failed"

(* The lowest step_order among the failed rows. *)
FirstFailed(rows) ==
    CHOOSE k \in {rows[i].step_order : i \in {n \in 1..Len(rows) : rows[n].status = "failed"}} :
        \A i \in 1..Len(rows) : rows[i].status = "failed" => k <= rows[i].step_order

ErrorOf(rows, k) ==
    rows[CHOOSE i \in 1..Len(rows) : rows[i].step_order = k].error_message

AbandonedTexts == {AbandonedReasons[n] : n \in 1..Len(AbandonedReasons)}

(* Once a row of d is failed, a step leaves no row of d newly running. *)
NoStepStartsAfterFailure ==
    \A d \in Ids :
        HasFailed(steps[d])
            => \A i \in Rows(d) :
                   steps'[d][i].status = "running" => steps[d][i].status = "running"

(* When the worker is done with d, every row after the first failed one is *)
(* failed with an abandonment reason.                                       *)
LaterStepsAbandoned ==
    \A d \in finished :
        HasFailed(steps[d])
            => \A j \in Rows(d) :
                   steps[d][j].step_order > FirstFailed(steps[d])
                       => /\ steps[d][j].status = "failed"
                          /\ steps[d][j].error_message \in AbandonedTexts

(* The reasons a row after the first failed row k may carry: the pipeline   *)
(* step that failed is k, or 3 when k = 4 and the env-file copy failed      *)
(* before row 3 was started; rows failed for an incomplete envelope all     *)
(* carry the validation error.                                              *)
LaterReasons(rows, k) ==
    {Abandoned(k)}
        \cup (IF k = 4 THEN {Abandoned(3)} ELSE {})
        \cup (IF ErrorOf(rows, k) = MissingParams THEN {MissingParams} ELSE {})

LaterStepsAbandonedOrInvalid ==
    \A d \in finished :
        HasFailed(steps[d])
            => \A j \in Rows(d) :
                   steps[d][j].step_order > FirstFailed(steps[d])
                       => /\ steps[d][j].status = "failed"
                          /\ steps[d][j].error_message
                                 \in LaterReasons(steps[d], FirstFailed(steps[d]))

C6_TerminalHasCompletedAt ==
    \A d \in Ids :
        LET row == deployments[d]
        IN  row.status \in Terminal
                => /\ row.completed_at # Null
                   /\ row.started_at # Null => row.completed_at >= row.started_at
                   /\ (row.started_at # Null /\ row.created_at # Null)
                          => row.started_at >= row.created_at

(* C7: for every step row with status completed, started_at and             *)
(* completed_at are set, started_at <= completed_at, and duration_ms is     *)
(* completed_at minus started_at in milliseconds.                           *)
C7_CompletedStepTiming ==
    \A d \in Ids : \A i \in Rows(d) :
        LET row == steps[d][i]
        IN  row.status = "completed"
                => /\ row.started_at # Null
                   /\ row.completed_at # Null
                   /\ row.started_at <= row.completed_at
                   /\ row.duration_ms = row.completed_at - row.started_at

(* A completed row that took time: started at 0, completed later. *)
C7_Witness ==
    \E d \in Ids : \E i \in Rows(d) :
        /\ steps[d][i].status = "completed"
        /\ steps[d][i].started_at = 0
        /\ steps[d][i].completed_at > 0
        /\ steps[d][i].duration_ms = steps[d][i].completed_at

(* A step that answers a create request: resp' is the request with the     *)
(* faults it met and the response it got.                                   *)
Answered == resp' # resp

StoreUntouched == UNCHANGED <<deployments, steps>>

QueueUntouched == UNCHANGED <<queue, jobs>>

Malformed(r) == ~r.fields_ok \/ r.port = <<>> \/ ~GetPortAsInt(r.port).ok

(* C10: a malformed creation request (out-of-range or non-numeric port, or  *)
(* a missing required field) of an authenticated caller, whose upload, if   *)
(* any, was stored, is answered "bad request", and no deployment row, step  *)
(* row or queue envelope is written for it.                                 *)
C10_MalformedIsBadRequest ==
    [][(Answered /\ Malformed(resp') /\ resp'.auth_ok /\ resp'.upload # "failed")
          => (resp'.code = 400 /\ StoreUntouched /\ QueueUntouched)]_vars

(* The integers the port strings denote that lie in 1..65535, written out. *)
PortsInRange ==
    { <<<<"1">>, 1>>, <<<<"8", "0">>, 80>>, <<<<"+", "8", "0">>, 80>>,
      <<<<"0", "8", "0">>, 80>>, <<<<"6", "5", "5", "3", "5">>, 65535>> }

(* C11: port conversion accepts exactly the integers 1..65535: 0 and 65536  *)
(* are rejected, 1 and 65535 are accepted, and a deployment is created only *)
(* with a port in that range (the port its request denotes).                *)
C11_PortAcceptedIffInRange ==
    /\ \A d \in Ids :
           deployments[d].status # "absent" => deployments[d].port \in 1..65535
    /\ resp.code # 0
           => /\ resp.code = 201 <=> \E e \in PortsInRange : e[1] = resp.port
              /\ resp.code = 201 => <<resp.port, deployments[resp.id].port>> \in PortsInRange
    /\ ~GetPortAsInt(<<"0">>).ok /\ ~GetPortAsInt(<<"6", "5", "5", "3", "6">>).ok
    /\ GetPortAsInt(<<"1">>).ok /\ GetPortAsInt(<<"6", "5", "5", "3", "5">>).ok

(* The first deployment, created with the highest port. *)
C11_Witness ==
    /\ resp.code = 201 /\ resp.port = <<"6", "5", "5", "3", "5">>
    /\ deployments[resp.id].port = 65535
    /\ resp.id = 1
    /\ faults = 0

Range(seq) == {seq[i] : i \in 1..Len(seq)}

NoRepeats(seq) == \A i, k \in 1..Len(seq) : i # k => seq[i] # seq[k]

Holders(j) == {w \in QueueWorkers : wk[w].job = j}

(* C12: with several workers dequeuing concurrently, each pop delivers an   *)
(* envelope to exactly one worker and every enqueued job is delivered       *)
(* exactly once: no job is popped twice or held by two workers, a popped    *)
(* job is with one worker until its iteration ends, and a pushed job is     *)
(* either still in the list or popped (none is skipped).                    *)
C12_DeliveredExactlyOnce ==
    /\ NoRepeats(popped)
    /\ NoRepeats(rqueue)
    /\ \A j \in Range(popped) :
           Cardinality(Holders(j)) + (IF j \in handled THEN 1 ELSE 0) = 1
    /\ \A j \in JobIds : j \notin Range(popped) => Holders(j) = {}
    /\ Range(pushed) = Range(rqueue) \cup Range(popped)
    /\ Range(rqueue) \cap Range(popped) = {}

(* Three jobs pushed: two are with the two workers at once, the third has   *)
(* been handled.                                                            *)
C12_Witness ==
    /\ Len(pushed) = 3 /\ Len(popped) = 3
    /\ wk["w1"].job # 0 /\ wk["w2"].job # 0
    /\ wk["w1"].pc = "work" /\ wk["w2"].pc = "work"
    /\ Cardinality(handled) = 1

(* C13: the queue is FIFO: jobs are popped in the order in which they were  *)
(* pushed (if A was pushed before B, A is popped before B), and the list    *)
(* holds the jobs not yet popped, the newest at its head.                   *)
C13_PoppedInPushOrder ==
    /\ Len(popped) <= Len(pushed)
    /\ \A i \in 1..Len(popped) : popped[i] = pushed[i]
    /\ \A i \in 1..Len(rqueue) : rqueue[i] = pushed[Len(pushed) + 1 - i]

(* The first job was popped while the two pushed after it wait, the last    *)
(* pushed at the head.                                                      *)
C13_Witness ==
    /\ pushed = <<1, 2, 3>>
    /\ popped = <<1>>
    /\ rqueue = <<3, 2>>

(* C14: a job popped by a worker that dies before it has ended the          *)
(* iteration is lost: it is never put back in the list nor delivered to     *)
(* another worker, its iteration never ends, and the status of its          *)
(* deployment never changes again, so that a deployment whose final status  *)
(* the worker had not written yet never reaches a terminal status.          *)
C14_CrashedJobIsLost ==
    [][\A w \in QueueWorkers :
          wk[w].pc = "crashed"
              => /\ wk'[w] = wk[w]
                 /\ wk[w].job \notin Range(rqueue')
                 /\ \A v \in QueueWorkers \ {w} : wk'[v].job # wk[w].job
                 /\ wk[w].job \notin handled'
                 /\ dstatus'[wk[w].job] = dstatus[wk[w].job]
                 /\ wk[w].target = "none"
                        => dstatus[wk[w].job] \in {"pending", "running"}]_vars

(* Worker w1 died in the middle of the pipeline of the first job: the       *)
(* deployment is still running although the other worker has handled the    *)
(* two other jobs and waits at the empty list.                              *)
C14_Witness ==
    /\ wk["w1"].pc = "crashed" /\ wk["w1"].job = 1 /\ wk["w1"].target = "none"
    /\ dstatus[1] = "running"
    /\ handled = {2, 3}
    /\ wk["w2"].pc = "brpop"
    /\ rqueue = <<>>

(* The workers that DequeueJob has handed job j and whose UpdateJobStatus   *)
(* has not written yet.                                                     *)
Dequeued(j) ==
    {w \in QueueWorkers : wk[w].job = j /\ wk[w].pc \in {"start", "work", "update_get", "update_set"}}

(* C15: once DequeueJob has returned a job, and until UpdateJobStatus       *)
(* writes, the record of the job is running with started_at stamped,        *)
(* however the producer's LPUSH and SET interleave with the worker's BRPOP  *)
(* and SET.                                                                 *)
C15_DequeuedRecordIsRunning ==
    \A j \in JobIds :
        Dequeued(j) # {}
            => /\ rjob[j].status = "running"
               /\ rjob[j].started_at # Null

(* C16: when a worker has ended the iteration of a job, the record of the   *)
(* job matches the outcome of the deployment: completed when the            *)
(* deployment completed, failed with completed_at stamped when it failed.   *)
C16_RecordMatchesOutcome ==
    \A j \in handled :
        /\ dstatus[j] = "completed" => rjob[j].status = "completed"
        /\ dstatus[j] = "failed"
               => rjob[j].status = "failed" /\ rjob[j].completed_at # Null

(* Every id a log row of the model can have. *)
AllLogIds == NewLogIds \cup {MaxLogs + i : i \in 1..(PollLimit + 1)}

HasLog(id) == \E i \in 1..Len(logs) : logs[i].id = id

SentLog(id) == \E i \in 1..Len(stream.events) : stream.events[i].id = id

(* The log events sent so far are in ascending order of (created_at, id). *)
SentInOrder ==
    \A i, j \in 1..Len(stream.events) :
        i < j => \/ stream.events[i].created_at < stream.events[j].created_at
                 \/ /\ stream.events[i].created_at = stream.events[j].created_at
                    /\ stream.events[i].id < stream.events[j].id

(* C17: an observer attached to the stream is sent every log row of the     *)
(* deployment at least once, unless it disconnects first, and the log       *)
(* events it is sent are in ascending order of (created_at, id), whatever   *)
(* the ids of the logs.                                                     *)
C17_EveryLogSentInOrder ==
    /\ [](SentInOrder)
    /\ \A id \in AllLogIds :
           (stream.pc = "polling" /\ HasLog(id)) ~> (stream.pc = "ended" \/ SentLog(id))

(* The most recent rows of the table, limit of them at most. *)
Latest(rows, limit) == SubSeq(rows, Len(rows) + 1 - Min(limit, Len(rows)), Len(rows))

(* The events a step adds to those sent before. *)
NewEvents == SubSeq(stream'.events, Len(stream.events) + 1, Len(stream'.events))

(* C18: on attach the stream sends the most recent logs of the deployment,  *)
(* 50 at most; every later poll sends at most 100 rows, each with an id     *)
(* strictly greater than the lastLogID it had before the row.               *)
C18_LatestThenNewer ==
    [][/\ (stream.pc = "detached" /\ stream'.pc = "polling")
              => stream'.events = Latest(logs, InitialLimit)
       /\ (stream.pc = "polling" /\ stream'.pc = "polling")
              => /\ Len(NewEvents) <= PollLimit
                 /\ \A i \in 1..Len(NewEvents) : NewEvents[i].id > stream.lastLogID
                 /\ \A i, j \in 1..Len(NewEvents) : i < j => NewEvents[i].id < NewEvents[j].id]_vars

AllSent == \A i \in 1..Len(logs) : SentLog(logs[i].id)

(* C19: the stream ends when the observer disconnects, and it ends once     *)
(* the deployment is terminal and every log written up to then has been     *)
(* sent.                                                                    *)
C19_StreamEnds ==
    /\ [][stream.pc = "ended" => stream'.pc = "ended"]_vars
    /\ (stream.pc = "polling" /\ dstatus[Streamed] \in {"completed", "failed"} /\ AllSent)
           ~> (stream.pc = "ended")

(* C20: when the SSH connect has failed, the deployment is failed with     *)
(* the connect error as its message, every step row of the deployment is    *)
(* failed with a reason, and no step row has ever been running (no row      *)
(* has a started_at).                                                       *)
C20_ConnectFailureFailsAll ==
    \A d \in Ids :
        deployments[d].error_message = ConnectFailed
            => /\ deployments[d].status = "failed"
               /\ \A i \in Rows(d) :
                      /\ steps[d][i].status = "failed"
                      /\ steps[d][i].error_message # NoError
                      /\ steps[d][i].started_at = Null

(* A deployment with its five step rows whose connect failed and whose     *)
(* worker is done with it: the first row carries the connect error, the    *)
(* later rows the abandonment reason.                                       *)
C20_Witness ==
    \E d \in finished :
        /\ deployments[d].error_message = ConnectFailed
        /\ Len(steps[d]) = 5
        /\ steps[d][1].error_message = ConnectFailed
        /\ steps[d][5].error_message = Abandoned(1)

(* The rows of d with the given step_order. *)
RowsOf(d, stepOrder) == {i \in Rows(d) : steps[d][i].step_order = stepOrder}

(* C21: when the upload of the env file has failed in the docker run step   *)
(* (step 3) and the worker has handled the failure, the row of step 3 is    *)
(* failed, the later rows are failed as abandoned, and the deployment is    *)
(* failed.                                                                  *)
C21_EnvUploadFailureFailsStep ==
    \A w \in Workers :
        (pc[w] = "return_err" /\ wjob[w].env_file /\ failedStep[w] = 3)
            => /\ deployments[Job(w)].status = "failed"
               /\ \A i \in RowsOf(Job(w), 3) : steps[Job(w)][i].status = "failed"
               /\ \A i \in Rows(Job(w)) :
                      steps[Job(w)][i].step_order > 3
                          => /\ steps[Job(w)][i].status = "failed"
                             /\ steps[Job(w)][i].error_message = Abandoned(3)

(* C22: when a substep of step N has failed after the step began, and the   *)
(* worker has handled the failure, the row of step N is failed with the     *)
(* captured reason, and only later rows carry the abandonment reason.       *)
C22_FailedStepHasCapturedReason ==
    \A w \in Workers :
        (pc[w] = "return_err" /\ failedStep[w] # 0)
            => \A i \in Rows(Job(w)) :
                   /\ (steps[Job(w)][i].step_order = failedStep[w]
                           /\ steps[Job(w)][i].started_at # Null)
                          => /\ steps[Job(w)][i].status = "failed"
                             /\ steps[Job(w)][i].error_message = Captured
                   /\ steps[Job(w)][i].error_message = Abandoned(failedStep[w])
                          => steps[Job(w)][i].step_order > failedStep[w]

(* C23: the container name of a created deployment is the caller's name   *)
(* when one is given; else, when project and deployment names are both     *)
(* given, deployknot-, the sanitized project name, a hyphen and the         *)
(* sanitized deployment name; else deployknot- and the id.  The deployment  *)
(* row, the answer and the job envelope carry that same name.               *)
C23_ContainerNamePrecedence ==
    /\ resp.code = 201
           => /\ resp.container =
                     IF resp.container_name # <<>> THEN resp.container_name
                     ELSE IF resp.project_name # <<>> /\ resp.deployment_name # <<>>
                     THEN Prefix \o sanitizeContainerName(resp.project_name) \o <<"-">>
                              \o sanitizeContainerName(resp.deployment_name)
                     ELSE Prefix \o IdString(resp.id)
              /\ deployments[resp.id].container_name = resp.container
    /\ \A i \in 1..Len(queue) :
           queue[i].container_name = deployments[queue[i].deployment_id].container_name

(* A request that gives a container name besides project and deployment     *)
(* names: row, answer and envelope carry the caller's name.                 *)
C23_Witness ==
    /\ resp.code = 201
    /\ resp.container_name = ServiceA
    /\ resp.project_name = ProjectPQ /\ resp.deployment_name = DeploymentDep1
    /\ resp.container = ServiceA
    /\ deployments[resp.id].container_name = ServiceA
    /\ queue # <<>> /\ queue[1].deployment_id = resp.id /\ queue[1].container_name = ServiceA

(* The sanitized name as specified: lowercase, every character outside     *)
(* [a-z0-9-] becomes a hyphen, runs of hyphens are collapsed, leading and   *)
(* trailing hyphens are trimmed, the empty name becomes app, and the name   *)
(* is cut to 50 characters.                                                 *)
Collapsed(s) ==
    LET kept == {i \in 1..Len(s) : ~(s[i] = "-" /\ i > 1 /\ s[i - 1] = "-")}
    IN  [k \in 1..Cardinality(kept) |->
            s[CHOOSE i \in kept : Cardinality({j \in kept : j < i}) = k - 1]]

Sanitized(name) ==
    LET mapped == [i \in 1..Len(name) |->
                      IF IsNameChar(ToLower(name[i])) THEN ToLower(name[i]) ELSE "-"]
        trimmed == TrimHyphens(Collapsed(mapped))
        named == IF trimmed = <<>> THEN <<"a", "p", "p">> ELSE trimmed
    IN  IF Len(named) > NameLimit THEN SubSeq(named, 1, NameLimit) ELSE named

(* C24: a deployment created with project and deployment names and no      *)
(* container name is named deployknot-, the specified sanitized project     *)
(* name, a hyphen and the specified sanitized deployment name; project      *)
(* "P! Q" with deployment "Dep 1" gives deployknot-p-q-dep-1.               *)
C24_SanitizedAsSpecified ==
    (resp.code = 201 /\ resp.container_name = <<>>
         /\ resp.project_name # <<>> /\ resp.deployment_name # <<>>)
        => resp.container = Prefix \o Sanitized(resp.project_name) \o <<"-">>
                                \o Sanitized(resp.deployment_name)

(* The text matches ^[a-z0-9-]{1,50}$ and has no hyphen at either end. *)
WellFormedName(s) ==
    /\ Len(s) \in 1..NameLimit
    /\ \A i \in 1..Len(s) : IsNameChar(s[i])
    /\ s[1] # "-" /\ s[Len(s)] # "-"

(* C25: for the project name of every created deployment, sanitizing the   *)
(* sanitized name changes nothing, and the sanitized name matches           *)
(* ^[a-z0-9-]{1,50}$ with no hyphen at either end.                          *)
C25_SanitizeIdempotent ==
    (resp.code = 201 /\ resp.project_name # <<>>)
        => /\ sanitizeContainerName(sanitizeContainerName(resp.project_name))
                  = sanitizeContainerName(resp.project_name)
           /\ WellFormedName(sanitizeContainerName(resp.project_name))

(* C26: the text processEnvironmentVariables has written is left as it is *)
(* by processEnvironmentVariables: normalizing twice gives what             *)
(* normalizing once gives.                                                  *)
C26_NormalizeIdempotent ==
    run.source = "inline"
        => processEnvironmentVariables(run.written) = run.written

(* Every line of the text is blank or a comment. *)
OnlyCommentsAndBlanks(s) ==
    \A k \in 1..Len(SplitLines(s)) :
        \/ TrimSpace(SplitLines(s)[k]) = <<>>
        \/ Head(TrimSpace(SplitLines(s)[k])) = "#"

(* C27: when the env input of the job, uploaded or inline, is empty or has *)
(* only comments and blank lines, docker run is issued without --env-file.  *)
C27_NoEnvFileForEmptyInput ==
    (run.source # "none" /\ OnlyCommentsAndBlanks(run.input)) => ~run.env_file

(* The public part of a read result: all of it but the id and the times *)
(* of the deployment.                                                      *)
Public(r) ==
    [status |-> r.status, port |-> r.port, container_name |-> r.container_name,
     error_message |-> r.error_message, project_name |-> r.project_name,
     deployment_name |-> r.deployment_name]

DeniedTexts == {GitCloneDenied(p) : p \in Pats}

(* Two deployments that were requested with the same fields but for the    *)
(* secrets, and whose steps met the same outcomes: the step rows agree in   *)
(* status and reason, up to the clone output of each.                       *)
DifferInSecretsOnly(d, e) ==
    /\ deployments[d].status # "absent" /\ deployments[e].status # "absent"
    /\ deployments[d].status = deployments[e].status
    /\ deployments[d].port = deployments[e].port
    /\ deployments[d].container_name = deployments[e].container_name
    /\ deployments[d].project_name = deployments[e].project_name
    /\ deployments[d].deployment_name = deployments[e].deployment_name
    /\ Len(steps[d]) = Len(steps[e])
    /\ \A i \in Rows(d) :
           /\ steps[d][i].status = steps[e][i].status
           /\ \/ steps[d][i].error_message = steps[e][i].error_message
              \/ {steps[d][i].error_message, steps[e][i].error_message} \subseteq DeniedTexts

(* C28: two deployments that differ in ssh password and repository access *)
(* token only have the same read results: get deployment returns the same  *)
(* public part for both, and the list by user holds the same public part    *)
(* for both.                                                                *)
C28_ReadResultsHideSecrets ==
    \A d, e \in Ids :
        DifferInSecretsOnly(d, e)
            => /\ Public(GetDeployment(d)) = Public(GetDeployment(e))
               /\ \E r \in GetDeploymentsByUser : r.id = d /\ Public(r) = Public(GetDeployment(e))

(* C29: when the process has ended after a signal that came while the      *)
(* worker was processing a deployment, the deployment is aborted and every  *)
(* step row that is not completed is failed with the reason "cancelled".    *)
C29_CancelledIsAborted ==
    \A w \in Workers :
        (proc = "exited" /\ Job(w) # 0)
            => /\ deployments[Job(w)].status = "aborted"
               /\ \A i \in Rows(Job(w)) :
                      steps[Job(w)][i].status # "completed"
                          => /\ steps[Job(w)][i].status = "failed"
                             /\ steps[Job(w)][i].error_message = "cancelled"

(* C30: two deployments to the same host do not conflict: neither fails    *)
(* because of the other, and a container that was started runs the image    *)
(* built from the working copy of its own deployment with the env file of   *)
(* its own deployment.                                                      *)
C30_NoConflictOnSharedHost ==
    \A w \in QueueWorkers :
        /\ host.pc[w] # "failed"
        /\ host.pc[w] = "done"
               => /\ host.container[HostJob(w)].image = HostJob(w)
                  /\ host.container[HostJob(w)].env = HostJob(w)

(* The cleanup commands of one deployment, in the order of the pipeline. *)
Cleaned(h, d) == RemoveImage(RemoveContainer(RemoveApp(h), d), d)

(* C31: on a target with any stale state the cleanup commands leave the    *)
(* same state whether run once or twice, no step of the pipeline fails,     *)
(* and the pipeline ends as on a clean target: the working copy, the image  *)
(* and a running container of this deployment.                              *)
C31_CleanupIdempotent ==
    /\ Cleaned(Cleaned(host, 1), 1) = Cleaned(host, 1)
    /\ Cleaned(host, 1).app = 0
    /\ Cleaned(host, 1).image[1] = 0
    /\ Cleaned(host, 1).container[1] = NoContainer
    /\ host.pc["w1"] # "failed"
    /\ host.pc["w1"] = "done"
           => /\ host.app = 1
              /\ host.image[1] = 1
              /\ host.container[1].status = "running"
              /\ host.container[1].image = 1

(* A second deployment has cleaned a target on which the first had left    *)
(* its container running, its image and its env file.                       *)
C31_Witness ==
    /\ host.pc["w1"] = "build"
    /\ host.uploaded = 1
    /\ host.container[1] = NoContainer
    /\ host.image[1] = 0

(* The value without its quotes when a single or a double quote leads it *)
(* and the same quote trails it.                                           *)
StripMatched(v) ==
    IF Len(v) >= 2 /\ v[1] \in Quotes /\ v[Len(v)] = v[1]
    THEN SubSeq(v, 2, Len(v) - 1)
    ELSE v

(* The normalized form of an env text: its lines trimmed, blank lines,     *)
(* comments and lines without "=" dropped, each line split at its first     *)
(* "=", key and value trimmed, matched quotes stripped from the value.      *)
Normalized(envVars) ==
    LET kept == SelectSeq(SplitLines(envVars), IsVariable)
        Line(line) ==
            LET t == TrimSpace(line)
            IN  TrimSpace(SubSeq(t, 1, FirstEquals(t) - 1)) \o <<"=">>
                    \o StripMatched(TrimSpace(SubSeq(t, FirstEquals(t) + 1, Len(t))))
    IN  Join([k \in 1..Len(kept) |-> Line(kept[k])])

(* C34: the text written for an inline env string is its normalized form, *)
(* with quotes removed from a value only when a matching quote leads and    *)
(* trails it.                                                               *)
C34_InlineNormalizedAsReference ==
    run.source = "inline" => run.written = Normalized(run.input)

(* C35: when a deployment has failed, no container of its name is on the   *)
(* target.                                                                  *)
C35_FailedLeavesNoContainer ==
    host.pc["w1"] = "failed" => host.container[1].status = "absent"

(* The rows of a deployment that are running. *)
Running(rows) == {i \in 1..Len(rows) : rows[i].status = "running"}

(* Row i of deployment d is set to running in this step. *)
BecomesRunning(d, i) ==
    /\ i <= Len(steps'[d])
    /\ steps[d][i].status # "running"
    /\ steps'[d][i].status = "running"

(* C32: a step row is set to running only when it is the first of the     *)
(* pipeline or the row of the previous step is completed, and at most one   *)
(* row of a deployment is running at any time.                              *)
C32_StepsInSequence ==
    [][\A d \in Ids :
          /\ Cardinality(Running(steps'[d])) <= 1
          /\ \A i \in Rows(d) :
                 BecomesRunning(d, i)
                     => \/ steps[d][i].step_order = 1
                        \/ \E j \in Rows(d) :
                               /\ steps[d][j].step_order = steps[d][i].step_order - 1
                               /\ steps[d][j].status = "completed"]_vars

(* The third step of a deployment is running after two completed steps. *)
C32_Witness ==
    \E d \in Ids :
        /\ Len(steps[d]) = Len(InitialSteps)
        /\ steps[d][1].status = "completed"
        /\ steps[d][2].status = "completed"
        /\ steps[d][3].status = "running"

(* C33: a step row that is set to running has never been running before:  *)
(* it has no start time yet.                                                *)
C33_RunningAtMostOnce ==
    [][\A d \in Ids : \A i \in Rows(d) :
          BecomesRunning(d, i) => steps[d][i].started_at = Null]_vars

(* A deployment has gone through all of its steps and the worker has       *)
(* returned to the queue.                                                   *)
C33_Witness ==
    \E d \in Ids :
        /\ d \in finished
        /\ deployments[d].status = "completed"
        /\ Len(steps[d]) = Len(InitialSteps)
        /\ \A i \in 1..4 : steps[d][i].started_at # Null /\ steps[d][i].status = "completed"

(* The stage of the pipeline a worker is at. *)
StageOf(at) ==
    IF at = "clone_run" THEN "git_clone"
    ELSE IF at = "build_run" THEN "docker_build"
    ELSE IF at = "run_exec" THEN "docker_run"
    ELSE "health_check"

(* C36: while a stage of the pipeline is at work, the row that is running  *)
(* is the row named after the stage.                                        *)
C36_RowNamedAfterStage ==
    \A w \in Workers :
        pc[w] \in {"clone_run", "build_run", "run_exec", "health_run"}
            => \A i \in Running(steps[Job(w)]) :
                   steps[Job(w)][i].step_name = StageOf(pc[w])

(* C37: a poll emits rows of strictly increasing ids, each greater than    *)
(* every id emitted before, and after the catch-up and after every poll     *)
(* the cursor is the greatest id emitted so far.                            *)
C37_PollNeverRepeats ==
    [][(stream'.pc = "polling" /\ stream' # stream)
          => /\ stream'.lastLogID = GreatestId(stream'.events, ZeroId)
             /\ stream.pc = "polling"
                    => /\ \A i, k \in 1..Len(NewEvents) :
                              i < k => NewEvents[i].id < NewEvents[k].id
                       /\ \A i \in 1..Len(NewEvents), k \in 1..Len(stream.events) :
                              NewEvents[i].id > stream.events[k].id]_vars

(* The stream has emitted more rows than the catch-up reads. *)
C37_Witness ==
    stream.pc = "polling" /\ Len(stream.events) > InitialLimit

(* C38: a deployment that is completed or failed keeps its status, and a   *)
(* deployment that has left pending is never pending again.                 *)
C38_StatusMovesForward ==
    [][\A d \in Ids :
          /\ deployments[d].status \in {"completed", "failed"}
                 => deployments'[d].status = deployments[d].status
          /\ deployments[d].status \in {"running", "completed", "failed"}
                 => deployments'[d].status # "pending"
          /\ deployments[d].status # "absent" => deployments'[d].status # "absent"]_vars

(* One deployment has ended failed and another completed. *)
C38_Witness ==
    \E d, e \in Ids :
        /\ d \in finished /\ deployments[d].status = "failed"
        /\ e \in finished /\ deployments[e].status = "completed"

(* C39: a failed deployment has an error message and a completed one has   *)
(* none.                                                                    *)
C39_MessageIffFailed ==
    \A d \in Ids :
        /\ deployments[d].status = "failed" => deployments[d].error_message # NoError
        /\ deployments[d].status = "completed" => deployments[d].error_message = NoError

(* A deployment failed at the connection, another in a step, or one was    *)
(* completed after another had failed.                                      *)
C39_Witness ==
    \E d, e \in Ids :
        /\ deployments[d].status = "failed"
        /\ deployments[d].error_message = DeploymentFailed
        /\ deployments[e].status = "completed"
        /\ deployments[e].error_message = NoError

(* C40: every envelope in the queue and every job a worker holds refers to *)
(* a deployment row that has been written.                                  *)
C40_EnqueuedAfterRowWritten ==
    /\ \A i \in 1..Len(queue) : deployments[queue[i].deployment_id].status # "absent"
    /\ \A w \in Workers : Job(w) # 0 => deployments[Job(w)].status # "absent"

(* A request whose row write failed has been answered while the queue      *)
(* holds the job of an earlier request.                                     *)
C40_Witness ==
    /\ resp.code = 500
    /\ resp.deploy_fail
    /\ queue # <<>>

====
